---- MODULE Spec2Model ----
(***************************************************************************)
(* Model of the snapshot store, the listing client and the sync            *)
(* orchestration of data_gatherer.                                          *)
(*                                                                         *)
(*   persistence/db.py   WorkloadDB  (workload table, hard delete)         *)
(*   sync/engine.py      SyncEngine  (sync_kind, finalize, cleanup_kinds)  *)
(*   run.py              sync        (fan-out, collect, finalize, cleanup) *)
(*   kube/client.py      list_resources (pagination, retry)                *)
(***************************************************************************)
EXTENDS Integers, Sequences, FiniteSets, TLC

(***************************************************************************)
(* Bounds of the model.                                                    *)
(***************************************************************************)
\* timestamps handed to the store as `now` range over 0..MaxTime
MaxTime == 1

\* number of store connections calling upsert_workload concurrently
NumConns == 2

\* number of sync runs executed one after the other
MaxRuns == 2

\* a listing has 1..MaxPages pages
MaxPages == 3

\* target.parallelism ranges over 0..MaxParallelism
MaxParallelism == 2

Times == 0..MaxTime

(***************************************************************************)
(* Input sets.                                                             *)
(***************************************************************************)
Clusters == {"c1", "c2"}

\* the kinds used as inputs; both are keys of STATIC_KIND_MAP
Kinds == {"Deployment", "Node"}

\* (kind, namespace, name) triples, the shape of the entries of alive_keys;
\* namespace is the empty string for the cluster-scoped Node kind
KeyDeployApp == <<"Deployment", "ns1", "app">>
KeyDeployWeb == <<"Deployment", "ns1", "web">>
KeyNodeN1 == <<"Node", "", "n1">>
Keys == {KeyDeployApp, KeyDeployWeb, KeyNodeN1}

\* (cluster, key) pairs the store operations are called with
Identities ==
  {<<"c1", KeyDeployApp>>, <<"c1", KeyDeployWeb>>, <<"c1", KeyNodeN1>>,
   <<"c2", KeyDeployApp>>}

\* The non-identity arguments of upsert_workload.  PayloadA and PayloadA2
\* carry the same manifest_hash and differ in every other field; PayloadB
\* carries another hash.
PayloadA == [api_version |-> "apps/v1", resource_version |-> "1", uid |-> "u1",
             manifest_json |-> "mA", manifest_hash |-> "hashA"]
PayloadA2 == [api_version |-> "apps/v1beta1", resource_version |-> "2", uid |-> "u2",
              manifest_json |-> "mA2", manifest_hash |-> "hashA"]
PayloadB == [api_version |-> "apps/v1", resource_version |-> "3", uid |-> "u1",
             manifest_json |-> "mB", manifest_hash |-> "hashB"]
Payloads == {PayloadA, PayloadA2, PayloadB}

\* (identity, payload, now) triples upsert_workload is called with: every
\* payload and timestamp for the Deployment of c1, one payload and timestamp
\* for the other identities
UpsertInputs ==
  ({<<"c1", KeyDeployApp>>} \X Payloads \X Times)
    \cup (Identities \X {PayloadA} \X {0})

\* the identities whose delete-then-reinsert history is recorded in `gone`
Tracked == {<<"c1", KeyDeployApp>>}

\* kinds_scope argument: None, or a collection of kinds
NoScope == [given |-> FALSE, kinds |-> {}]
ScopeOf(ks) == [given |-> TRUE, kinds |-> ks]
Scopes == {NoScope} \cup {ScopeOf(ks) : ks \in SUBSET Kinds}

(***************************************************************************)
(* State.                                                                  *)
(***************************************************************************)
VARIABLES
  workload,   \* the committed rows of table workload (a set of row records)
  ret,        \* what the last store call returned
  gone        \* per tracked identity, history of the delete-then-reinsert scenario:
              \* the manifest_hash of the row mark_deleted issued a DELETE
              \* for, "reinserted" after the next upsert of the identity
              \* when that upsert carried the same hash, "" otherwise

\* Concurrent upsert_workload calls (SpecRace): each connection's position
\* in upsert_workload and its locals, and SQLite's write transaction.
VARIABLES
  conn,       \* per connection: pc, arguments, the fetched row, the status
  lock,       \* the connection inside a write transaction, 0 when none
  staged      \* the table as the open write transaction sees it

\* The sync command for one cluster (SpecRun): run.py sync, lines 134-240.
VARIABLES
  node_capacity,     \* the rows of table node_capacity
  phase,             \* "idle", "tasks", "finalized", "done"; "aborted" when
                     \* the exception of a task has left the collecting loop
  clock,             \* number of runs started; `now` of the run's sync_kind calls
  configured,        \* target.include_kinds
  task,              \* per kind of kind_map (per (kind, namespace) in
                     \* namespace mode): the worker's position and locals,
                     \* what its listing yielded and how the listing ended
  all_alive,         \* all_alive
  successful_kinds,  \* successful_kinds
  errors,            \* keys of the errors dict
  removed,           \* removed (summary['removed'] when the run is done)
  calls              \* how often the run has called engine.finalize and
                     \* engine.cleanup_kinds

\* list_resources on one kind (SpecList): kube/client.py lines 49-84.
VARIABLES
  pages,      \* the backend's script: the pages it answers with, in order
  served,     \* number of pages the backend has answered with
  cont,       \* cont
  attempt,    \* attempt
  requests,   \* the continue parameter of every call_api issued, in order
  yielded,    \* the items the generator has yielded, in order
  lc,         \* "request" while the generator runs, else how it ended:
              \* "complete", "skip", "failed", "raised"
  failures,   \* number of request attempts that did not return a page
  namespace,  \* the namespace argument: NoNamespace when list_resources
              \* runs, else list_namespaced_resources runs on it
  all503      \* TRUE while every attempt so far was answered with HTTP 503

\* The thread pool of a sync run (SpecPool): run.py lines 156-203.
VARIABLES
  pool        \* phase: "idle", "pool" (inside the with block), "crashed"
              \*   (the executor could not be made), "joined" (all collected)
              \* parallelism, namespace_mode: as read from target
              \* tasks: the (kind, namespace) pairs submitted
              \* max_workers: max_workers
              \* st: per task "queued", "running", "done", "collected"
              \* runs: per task, how often a worker has started it

\* normalize_manifest applied to a raw object (SpecNormalize).
VARIABLES
  doc,        \* the object: the raw one, then what normalize_manifest returned
  normalized, \* how often normalize_manifest has been applied to it
  observed    \* sync_kind item by item (SpecSyncKind): the raw item whose
              \* normalized manifest the row of the identity holds

storeVars == <<workload, ret, gone>>

normVars == <<doc, normalized, observed>>

poolVars == <<pool>>

listVars == <<pages, served, cont, attempt, requests, yielded, lc, failures,
              namespace, all503>>

raceVars == <<conn, lock, staged>>

runVars == <<node_capacity, phase, clock, configured, task, all_alive,
             successful_kinds, errors, removed, calls>>

vars == <<workload, ret, gone, conn, lock, staged, node_capacity, phase, clock,
          configured, task, all_alive, successful_kinds, errors, removed, calls,
          pages, served, cont, attempt, requests, yielded, lc, failures,
          namespace, all503, pool, doc, normalized, observed>>

(***************************************************************************)
(* Table workload (persistence/db.py).                                     *)
(***************************************************************************)
KeyOf(r) == <<r.kind, r.namespace, r.name>>

\* WHERE cluster=? AND kind=? AND namespace=? AND name=?
Match(r, cluster, k) == r.cluster = cluster /\ KeyOf(r) = k

\* SELECT ... FROM workload WHERE <identity>; {} stands for fetchone() = None
SelectWorkload(tbl, cluster, k) == {r \in tbl : Match(r, cluster, k)}

\* a unique index that does not reject anything
NoUniqueIndex(tbl, cluster, k) == FALSE

\* CREATE UNIQUE INDEX workload_identity ON workload(cluster, kind, namespace, name):
\* TRUE when an INSERT of this identity raises sqlite3.IntegrityError
workload_identity(tbl, cluster, k) == \E r \in tbl : Match(r, cluster, k)

NewRow(cluster, k, p, now) ==
  [cluster |-> cluster, api_version |-> p.api_version, kind |-> k[1],
   namespace |-> k[2], name |-> k[3], resource_version |-> p.resource_version,
   uid |-> p.uid, first_seen |-> now, last_seen |-> now, deleted |-> 0,
   manifest_json |-> p.manifest_json, manifest_hash |-> p.manifest_hash]

\* INSERT INTO workload(...) VALUES(...)
InsertWorkload(tbl, cluster, k, p, now) == tbl \cup {NewRow(cluster, k, p, now)}

\* UPDATE workload SET last_seen=?, deleted=0 WHERE <identity>
UpdateLastSeen(tbl, cluster, k, now) ==
  {IF Match(r, cluster, k) THEN [r EXCEPT !.last_seen = now, !.deleted = 0] ELSE r
     : r \in tbl}

\* the update branch also resetting first_seen
UpdateManifestResetsFirstSeen(tbl, cluster, k, p, now) ==
  {IF Match(r, cluster, k)
     THEN [r EXCEPT !.api_version = p.api_version,
                    !.resource_version = p.resource_version,
                    !.uid = p.uid, !.first_seen = now, !.last_seen = now,
                    !.manifest_json = p.manifest_json,
                    !.manifest_hash = p.manifest_hash, !.deleted = 0]
     ELSE r
     : r \in tbl}

\* UPDATE workload SET api_version=?, resource_version=?, uid=?, last_seen=?,
\*   manifest_json=?, manifest_hash=?, deleted=0 WHERE <identity>
UpdateManifest(tbl, cluster, k, p, now) ==
  {IF Match(r, cluster, k)
     THEN [r EXCEPT !.api_version = p.api_version,
                    !.resource_version = p.resource_version,
                    !.uid = p.uid, !.last_seen = now,
                    !.manifest_json = p.manifest_json,
                    !.manifest_hash = p.manifest_hash, !.deleted = 0]
     ELSE r
     : r \in tbl}

\* the hash comparison with the unchanged branch rewriting the manifest
CompareAndUpdateOverwrites(row, tbl, cluster, k, p, now) ==
  [tbl |-> UpdateManifest(tbl, cluster, k, p, now),
   status |-> IF (CHOOSE r \in row : TRUE).manifest_hash = p.manifest_hash
                THEN "unchanged" ELSE "updated"]

\* lines 112-124: old_hash, was_deleted = row; compare; UPDATE; commit
CompareAndUpdate(row, tbl, cluster, k, p, now) ==
  LET old_hash == (CHOOSE r \in row : TRUE).manifest_hash IN
  IF old_hash = p.manifest_hash
    THEN [tbl |-> UpdateLastSeen(tbl, cluster, k, now), status |-> "unchanged"]
    ELSE [tbl |-> UpdateManifest(tbl, cluster, k, p, now), status |-> "updated"]

\* upsert_workload run by one connection with no other writer in between:
\* SELECT; row None -> INSERT (IntegrityError -> re-read, raise when still
\* None); otherwise compare hashes and UPDATE.
upsert_workload(tbl, cluster, k, p, now) ==
  LET row == SelectWorkload(tbl, cluster, k) IN
  IF row = {}
    THEN IF ~workload_identity(tbl, cluster, k)
           THEN [tbl |-> InsertWorkload(tbl, cluster, k, p, now), status |-> "inserted"]
           ELSE LET row2 == SelectWorkload(tbl, cluster, k) IN
                IF row2 = {}
                  THEN [tbl |-> tbl, status |-> "IntegrityError"]
                  ELSE CompareAndUpdate(row2, tbl, cluster, k, p, now)
    ELSE CompareAndUpdate(row, tbl, cluster, k, p, now)

\* `if kinds_scope:` -- None and the empty collection are both falsy
Truthy(scope) == scope.given /\ scope.kinds # {}

\* the rows fetched into `existing` (lines 128-136)
Existing(tbl, cluster, scope) ==
  IF Truthy(scope)
    THEN {r \in tbl : r.cluster = cluster /\ r.kind \in scope.kinds}
    ELSE {r \in tbl : r.cluster = cluster}

\* mark_deleted setting the soft-delete flag instead of deleting
mark_deleted_soft(tbl, cluster, alive_keys, scope) ==
  LET dead == {r \in Existing(tbl, cluster, scope) : KeyOf(r) \notin alive_keys} IN
  [tbl |-> {IF r \in dead THEN [r EXCEPT !.deleted = 1] ELSE r : r \in tbl},
   removed |-> Cardinality(dead), dead |-> dead]

\* mark_deleted ignoring alive_keys
mark_deleted_all(tbl, cluster, alive_keys, scope) ==
  LET dead == Existing(tbl, cluster, scope) IN
  [tbl |-> tbl \ dead, removed |-> Cardinality(dead), dead |-> dead]

\* mark_deleted: for every fetched row whose key is not in alive_set,
\* DELETE FROM workload WHERE <identity>; removed += 1.  `dead` are the rows
\* the loop issued a DELETE for.
mark_deleted(tbl, cluster, alive_keys, scope) ==
  LET dead == {r \in Existing(tbl, cluster, scope) : KeyOf(r) \notin alive_keys} IN
  [tbl |-> {r \in tbl : ~\E d \in dead : Match(r, cluster, KeyOf(d))},
   removed |-> Cardinality(dead), dead |-> dead]

\* cleanup_obsolete_kinds forgetting the cluster filter in the DELETE
cleanup_obsolete_kinds_any_cluster(tbl, cluster, obsolete_kinds) ==
  LET hit == {r \in tbl : r.cluster = cluster /\ r.kind \in obsolete_kinds} IN
  IF obsolete_kinds = {} THEN [tbl |-> tbl, removed |-> 0]
  ELSE [tbl |-> IF Cardinality(hit) > 0
                  THEN {r \in tbl : r.kind \notin obsolete_kinds} ELSE tbl,
        removed |-> Cardinality(hit)]

\* cleanup_obsolete_kinds: SELECT COUNT(*) ... kind IN (...); DELETE when > 0
cleanup_obsolete_kinds(tbl, cluster, obsolete_kinds) ==
  LET hit == {r \in tbl : r.cluster = cluster /\ r.kind \in obsolete_kinds} IN
  IF obsolete_kinds = {} THEN [tbl |-> tbl, removed |-> 0]
  ELSE [tbl |-> IF Cardinality(hit) > 0 THEN tbl \ hit ELSE tbl,
        removed |-> Cardinality(hit)]

(***************************************************************************)
(* Table node_capacity (persistence/db.py).                                *)
(***************************************************************************)
Range(seq) == {seq[i] : i \in 1..Len(seq)}

\* d.get(key, default) on a dict modelled as a function
Get(d, key, default) == IF key \in DOMAIN d THEN d[key] ELSE default

\* the dict d without the keys of ks
Drop(d, ks) == [x \in DOMAIN d \ ks |-> d[x]]

EmptyDict == <<>>

\* the role labels tested in another order
NodeRoleInfraFirst(labels) ==
  IF "node-role.kubernetes.io/infra" \in DOMAIN labels THEN "infra"
    ELSE IF "node-role.kubernetes.io/master" \in DOMAIN labels
              \/ "node-role.kubernetes.io/control-plane" \in DOMAIN labels
      THEN "master"
    ELSE "worker"

\* lines 204-208: node_role from the role labels
NodeRole(labels) ==
  IF "node-role.kubernetes.io/master" \in DOMAIN labels
       \/ "node-role.kubernetes.io/control-plane" \in DOMAIN labels
    THEN "master"
    ELSE IF "node-role.kubernetes.io/infra" \in DOMAIN labels THEN "infra"
    ELSE "worker"

\* upsert_node_capacity: SELECT id ... AND deleted=0; INSERT or UPDATE
\* (of the quantity columns, cpu_capacity and memory_capacity are kept)
upsert_node_capacity(tbl, cluster, node_name, node_data, now) ==
  LET status == Get(node_data, "status", EmptyDict)
      capacity == Get(status, "capacity", EmptyDict)
      metadata == Get(node_data, "metadata", EmptyDict)
      labels == Get(metadata, "labels", EmptyDict)
      node_role == NodeRole(labels)
      row == {r \in tbl : r.cluster = cluster /\ r.node_name = node_name /\ r.deleted = 0}
  IN
  IF row = {}
    THEN tbl \cup {[cluster |-> cluster, node_name |-> node_name,
                    first_seen |-> now, last_seen |-> now, deleted |-> 0,
                    cpu_capacity |-> Get(capacity, "cpu", "None"),
                    memory_capacity |-> Get(capacity, "memory", "None"),
                    node_role |-> node_role]}
    ELSE {IF r.cluster = cluster /\ r.node_name = node_name
            THEN [r EXCEPT !.last_seen = now,
                           !.cpu_capacity = Get(capacity, "cpu", "None"),
                           !.memory_capacity = Get(capacity, "memory", "None"),
                           !.node_role = node_role, !.deleted = 0]
            ELSE r
            : r \in tbl}

\* mark_nodes_deleted: DELETE every row of the cluster whose node_name is
\* not in alive_nodes
mark_nodes_deleted(tbl, cluster, alive_nodes) ==
  {r \in tbl : ~(r.cluster = cluster /\ r.node_name \notin alive_nodes)}

(***************************************************************************)
(* Normalization and hashing (sync/normalize.py, util/hash.py).            *)
(***************************************************************************)
_STRIP_METADATA_FIELDS ==
  {"managedFields", "creationTimestamp", "resourceVersion", "uid", "generation"}

_REMOVE_TOP_LEVEL == {"status"}

\* the annotation keys of the inputs that start with one of
\* _SYSTEM_ANNOTATION_PREFIXES
SystemAnnotationKeys ==
  {"kubectl.kubernetes.io/last-applied-configuration",
   "deployment.kubernetes.io/revision", "openshift.io/generated-by"}

\* the value None of an annotations key
NoneValue == [None |-> "None"]

\* normalize_manifest with the last branch left out: an annotations map
\* that is empty after filtering stays in metadata
normalize_manifest_keeps_empty(obj) ==
  LET base == Drop(obj, _REMOVE_TOP_LEVEL)
      meta == Drop(Get(base, "metadata", EmptyDict), _STRIP_METADATA_FIELDS)
      raw == Get(meta, "annotations", EmptyDict)
      ann == IF raw = NoneValue THEN EmptyDict ELSE raw
      filtered == Drop(ann, SystemAnnotationKeys)
      meta2 == IF "annotations" \in DOMAIN meta
                 THEN [x \in DOMAIN meta |-> IF x = "annotations" THEN filtered ELSE meta[x]]
                 ELSE meta
  IN IF "metadata" \in DOMAIN base
       THEN [x \in DOMAIN base |-> IF x = "metadata" THEN meta2 ELSE base[x]]
       ELSE base

\* lines 15-31; `meta.get('annotations') or {}` takes None for the empty map
normalize_manifest(obj) ==
  LET base == Drop(obj, _REMOVE_TOP_LEVEL)
      meta == Drop(Get(base, "metadata", EmptyDict), _STRIP_METADATA_FIELDS)
      raw == Get(meta, "annotations", EmptyDict)
      ann == IF raw = NoneValue THEN EmptyDict ELSE raw
      filtered == Drop(ann, SystemAnnotationKeys)
      meta2 == IF DOMAIN filtered # {}
                 THEN [x \in DOMAIN meta \cup {"annotations"} |->
                         IF x = "annotations" THEN filtered ELSE meta[x]]
                 ELSE Drop(meta, {"annotations"})
  IN IF "metadata" \in DOMAIN base
       THEN [x \in DOMAIN base |-> IF x = "metadata" THEN meta2 ELSE base[x]]
       ELSE base

\* A dict keeps the order its keys were inserted in; an object that has the
\* field KeyOrder carries that order as the field's value.
KeyOrder == "<key order>"

\* json.dumps without sort_keys: the text follows the insertion order
canonical_json_unsorted(data) == <<"json", data>>

\* json.dumps(data, sort_keys=True, separators=(',', ':')): the text is a
\* function of the keys and values alone, not of the order the keys were
\* inserted in
canonical_json(data) == <<"json", Drop(data, {KeyOrder})>>

\* sha256 of the canonical text (taken as collision free)
sha256_of_manifest(manifest) == <<"sha256", canonical_json(manifest)>>

(***************************************************************************)
(* Listings of the cluster and the sync engine (sync/engine.py).           *)
(***************************************************************************)
\* STATIC_KIND_MAP: kind -> (api_version, plural, namespaced)
STATIC_KIND_MAP(kind) ==
  IF kind = "Deployment"
    THEN [api_version |-> "apps/v1", plural |-> "deployments", namespaced |-> TRUE]
    ELSE [api_version |-> "v1", plural |-> "nodes", namespaced |-> FALSE]

\* resolve_kinds
resolve_kinds(include_kinds) == include_kinds \cap Kinds

RunCluster == "c1"

\* raw objects as the API server lists them
RawDeployment(ns, name, rv, replicas) ==
  [apiVersion |-> "apps/v1", kind |-> "Deployment",
   metadata |-> [name |-> name, namespace |-> ns, resourceVersion |-> rv,
                 uid |-> "u1", generation |-> rv,
                 annotations |-> [x \in {"deployment.kubernetes.io/revision"} |-> rv]],
   spec |-> [replicas |-> replicas],
   status |-> [observedGeneration |-> rv]]

RawNode(name, rv) ==
  [apiVersion |-> "v1", kind |-> "Node",
   metadata |-> [name |-> name, resourceVersion |-> rv, uid |-> "u2",
                 labels |-> [x \in {"node-role.kubernetes.io/infra"} |-> ""]],
   status |-> [capacity |-> [cpu |-> "4", memory |-> "16Gi"]]]

\* what list_resources can yield for a kind (item order as listed)
Listings(kind) ==
  IF kind = "Deployment"
    THEN {<<>>,
          <<RawDeployment("ns1", "app", "1", "1")>>,
          <<RawDeployment("ns1", "app", "2", "3")>>,
          <<RawDeployment("ns1", "web", "1", "1")>>,
          <<RawDeployment("ns1", "app", "1", "1"), RawDeployment("ns1", "web", "1", "1")>>,
          <<RawDeployment("kube-system", "dns", "1", "1"),
            RawDeployment("ns1", "app", "2", "3")>>}
    ELSE {<<>>, <<RawNode("n1", "1")>>, <<RawNode("n2", "1")>>}

\* a target that excludes no namespace
is_namespace_excluded_never(ns) == FALSE

\* target.is_namespace_excluded with exclude_namespaces = {'kube-system'}
is_namespace_excluded(ns) == ns \in {"kube-system"}

\* _fetch_kind_items, cluster-wide branch (lines 101-106): items of
\* excluded namespaces are dropped, the others kept in order
FilterItems(listing, namespaced) ==
  SelectSeq(listing,
            LAMBDA item :
              ~(namespaced /\
                is_namespace_excluded(
                  Get(Get(item, "metadata", EmptyDict), "namespace", "default"))))

\* a key whose namespace falls back to 'default'
ItemKeyDefaultNamespace(kind, item) ==
  <<kind, Get(Get(item, "metadata", EmptyDict), "namespace", "default"), item.metadata.name>>

\* the key sync_kind appends to alive_keys for an item (lines 31-33, 55)
ItemKey(kind, item) ==
  <<kind, Get(Get(item, "metadata", EmptyDict), "namespace", ""), item.metadata.name>>

\* the arguments sync_kind hands to upsert_workload (lines 41-54)
ItemPayload(api_version, item) ==
  LET meta == Get(item, "metadata", EmptyDict)
      norm == normalize_manifest(item)
  IN [api_version |-> api_version,
      resource_version |-> Get(meta, "resourceVersion", "None"),
      uid |-> Get(meta, "uid", "None"),
      manifest_json |-> canonical_json(norm),
      manifest_hash |-> sha256_of_manifest(norm)]

\* one pass of the loop of sync_kind (lines 30-55) on the tables
SyncItem(wl, nc, kind, item, now) ==
  LET k == ItemKey(kind, item)
      api_version == STATIC_KIND_MAP(kind).api_version
  IN [workload |-> upsert_workload(wl, RunCluster, k, ItemPayload(api_version, item), now).tbl,
      node_capacity |-> IF kind = "Node"
                          THEN upsert_node_capacity(nc, RunCluster, item.metadata.name, item, now)
                          ELSE nc,
      key |-> k]

\* how the listing generator of a task can end: "complete" (the last page
\* had no token), "skip" (return after 403/404), "failed" (return after the
\* retry ceiling or a status that is not retried), "raised" (an exception
\* left the generator)
ListEnds == {"complete", "skip", "failed", "raised"}

\* the ways a listing that yielded `listing` can have ended without an
\* exception; the listings taken as stopped early are the empty one (the
\* first page was not received) and the one of a single page holding web
EndsOf(listing) ==
  IF listing = <<>> \/ (Len(listing) = 1 /\ listing[1].metadata.name = "web")
    THEN {"complete", "skip", "failed"}
    ELSE {"complete"}

\* an error that is reported for a 403/404 as well
FetchErrorOnSkip(end) == end \in {"raised", "skip"}

\* _fetch_kind_items, lines 96-110: error is not None exactly when an
\* exception came out of the iteration of the listing
FetchError(end) == end = "raised"

NoTask == [pc |-> "none", items |-> <<>>, idx |-> 1, alive |-> <<>>, alive_nodes |-> <<>>,
           end |-> "none", listed |-> <<>>]

NoCalls == [finalize |-> 0, cleanup_kinds |-> 0]

RunInit ==
  /\ node_capacity = {}
  /\ phase = "idle"
  /\ clock = 0
  /\ configured = {}
  /\ task = [k \in Kinds |-> NoTask]
  /\ all_alive = <<>>
  /\ successful_kinds = <<>>
  /\ errors = {}
  /\ removed = 0
  /\ calls = NoCalls

(***************************************************************************)
(* The listing client (kube/client.py, list_resources).                    *)
(***************************************************************************)
\* default of the parameter max_retries
max_retries == 4

\* metadata.continue absent from the payload: .get('continue') is None
NoneTok == "<None>"

\* `if cont` / `if not cont`: None and '' are falsy
Falsy(c) == c \in {NoneTok, ""}

\* the continuation token the backend hands out with page i
TokenNames == <<"t1", "t2", "t3", "t4", "t5", "t6">>
Tokens == Range(TokenNames)

\* the number of items a page can carry
PageCounts == {0, 2}

\* a request that never carries the token
QueryNoToken(c) == ""

\* line 54: query = f"?continue={cont}" if cont else ''
Query(c) == IF Falsy(c) THEN "" ELSE c

\* the items of page i of a script: count items, distinct over all pages
PageItems(i, count) == [j \in 1..count |-> <<i, j>>]

\* a backend script: pages 1..n-1 carry a token, page n carries none
\* (the key is absent, or the token is empty)
Scripts ==
  UNION {{[i \in 1..n |-> [count |-> counts[i],
                           cont |-> IF i < n THEN TokenNames[i] ELSE last]] :
            counts \in [1..n -> PageCounts], last \in {"", NoneTok}} : n \in 1..MaxPages}

\* HTTP statuses of an ApiException used as inputs; 400 stands for "any other"
HttpStatuses == {400, 403, 404, 429, 500, 502, 503, 504}

\* line 67: the statuses that are retried
RetryStatuses == {429, 500, 502, 503, 504}

\* _fetch_kind_items, line 90: namespace = None selects list_resources
NoNamespace == "<None>"

\* the namespace arguments of the listing functions
Namespaces == {NoNamespace, "ns1"}

\* lines 62-72 with the ceiling one higher: one more request per page
OnApiExceptionOneMore(status, att) ==
  IF status \in {403, 404} THEN "skip"
  ELSE IF status \in {429, 500, 502, 503, 504} /\ att <= max_retries THEN "retry"
  ELSE "failed"

\* lines 103-113 with 403 handled as a transient status
OnApiExceptionNamespacedRetry403(status, att) ==
  IF status = 404 THEN "skip"
  ELSE IF status \in {403, 429, 500, 502, 503, 504} /\ att < max_retries THEN "retry"
  ELSE "failed"

\* list_resources, lines 62-72: what `except ApiException` does with the
\* status: "skip" and "failed" both return from the generator, "retry"
\* sleeps, adds one to attempt and repeats the request
OnApiException(status, att) ==
  IF status \in {403, 404} THEN "skip"
  ELSE IF status \in {429, 500, 502, 503, 504} /\ att < max_retries THEN "retry"
  ELSE "failed"

\* list_resources, lines 73-79: what `except Exception` does
OnException(att) == IF att < max_retries THEN "retry" ELSE "failed"

\* list_namespaced_resources, lines 103-113
OnApiExceptionNamespaced(status, att) ==
  IF status \in {403, 404} THEN "skip"
  ELSE IF status \in {429, 500, 502, 503, 504} /\ att < max_retries THEN "retry"
  ELSE "failed"

\* list_namespaced_resources, lines 114-120
OnExceptionNamespaced(att) == IF att < max_retries THEN "retry" ELSE "failed"

\* lc after an attempt that was handled as `decision`
AfterFailure(decision) == IF decision = "retry" THEN "request" ELSE decision

ListIdle ==
  /\ pages = <<>>
  /\ served = 0
  /\ cont = NoneTok
  /\ attempt = 0
  /\ requests = <<>>
  /\ yielded = <<>>
  /\ lc = "idle"
  /\ failures = 0
  /\ namespace = NoNamespace
  /\ all503 = TRUE

\* list_resources is called: cont = None, the first request is next
ListInit ==
  /\ pages \in Scripts
  /\ served = 0
  /\ cont = NoneTok
  /\ attempt = 0
  /\ requests = <<>>
  /\ yielded = <<>>
  /\ lc = "request"
  /\ failures = 0
  /\ namespace \in Namespaces
  /\ all503 = TRUE

(***************************************************************************)
(* The worker pool of a sync run (run.py, lines 156-203).                  *)
(***************************************************************************)
\* target.parallelism: an integer of the configuration (config.py line 112
\* takes it as it is written), here 0..MaxParallelism
Parallelisms == 0..MaxParallelism

\* the namespaces target.include_namespaces is drawn from
IncludeNamespaces == {"ns1", "ns2", "ns3"}

\* the tasks a run can submit: (kind, None) or (kind, namespace)
TaskIds == Kinds \X ({NoNamespace} \cup IncludeNamespaces)

Min(a, b) == IF a < b THEN a ELSE b

\* lines 158-173: the tasks of the run
\* namespace mode keeps the namespaced kinds and pairs them with the
\* namespaces; otherwise there is one task per kind of kind_map
TasksOf(kind_map, namespace_mode, include_namespaces) ==
  IF namespace_mode
    THEN {k \in kind_map : STATIC_KIND_MAP(k).namespaced} \X include_namespaces
    ELSE kind_map \X {NoNamespace}

\* lines 169, 172: max_workers = min(target.parallelism, len(tasks))
MaxWorkers(parallelism, task_count) == Min(parallelism, task_count)

PoolIdle ==
  [phase |-> "idle", parallelism |-> 0, namespace_mode |-> FALSE, tasks |-> {},
   max_workers |-> 0, st |-> [t \in TaskIds |-> "none"], runs |-> [t \in TaskIds |-> 0]]

PoolInit == pool = PoolIdle

\* normalize_manifest is not being applied
NormIdle ==
  /\ doc = EmptyDict
  /\ normalized = 0
  /\ observed = EmptyDict

(***************************************************************************)
(* The store API called on one connection (Spec).                          *)
(***************************************************************************)
NoRet == [op |-> "none", status |-> "", removed |-> 0]

StoreInit ==
  /\ workload = {}
  /\ ret = NoRet
  /\ gone = [i \in Tracked |-> ""]

Conns == 1..NumConns

IdleConn == [pc |-> "idle", p |-> PayloadA, row |-> {}, lost |-> FALSE, status |-> ""]

RaceInit ==
  /\ conn = [c \in Conns |-> IdleConn]
  /\ lock = 0
  /\ staged = {}

CallUpsertWorkload(cluster, k, p, now) ==
  LET res == upsert_workload(workload, cluster, k, p, now) IN
  /\ workload' = res.tbl
  /\ ret' = [op |-> "upsert_workload", status |-> res.status, removed |-> 0]
  /\ gone' = [i \in Tracked |->
                IF i # <<cluster, k>> THEN gone[i]
                ELSE IF gone[i] = p.manifest_hash THEN "reinserted" ELSE ""]
  /\ UNCHANGED <<raceVars, runVars, listVars, poolVars, normVars>>

CallMarkDeleted(cluster, alive_keys, scope) ==
  LET res == mark_deleted(workload, cluster, alive_keys, scope) IN
  /\ workload' = res.tbl
  /\ ret' = [op |-> "mark_deleted", status |-> "", removed |-> res.removed]
  /\ gone' = [i \in Tracked |->
                LET hit == {r \in res.dead : Match(r, i[1], i[2])} IN
                IF hit # {} THEN (CHOOSE r \in hit : TRUE).manifest_hash ELSE gone[i]]
  /\ UNCHANGED <<raceVars, runVars, listVars, poolVars, normVars>>

CallCleanupObsoleteKinds(cluster, kinds) ==
  LET res == cleanup_obsolete_kinds(workload, cluster, kinds) IN
  /\ workload' = res.tbl
  /\ ret' = [op |-> "cleanup_obsolete_kinds", status |-> "", removed |-> res.removed]
  /\ UNCHANGED <<gone, raceVars, runVars, listVars, poolVars, normVars>>

UpsertStep ==
  \E u \in UpsertInputs : CallUpsertWorkload(u[1][1], u[1][2], u[2], u[3])

MarkDeletedStep ==
  \E cluster \in Clusters, alive_keys \in SUBSET Keys, scope \in Scopes :
    CallMarkDeleted(cluster, alive_keys, scope)

CleanupStep ==
  \E cluster \in Clusters, kinds \in SUBSET Kinds :
    CallCleanupObsoleteKinds(cluster, kinds)

Init == StoreInit /\ RaceInit /\ RunInit /\ ListIdle /\ PoolInit /\ NormIdle

Next == UpsertStep \/ MarkDeletedStep \/ CleanupStep

Spec == Init /\ [][Next]_vars

(***************************************************************************)
(* upsert_workload called from several connections on one identity         *)
(* (SpecRace).  Every cur.execute is one step.  SQLite, WAL mode: a SELECT  *)
(* outside a transaction reads the committed table; the first INSERT or    *)
(* UPDATE of a call opens the write transaction, which waits (busy         *)
(* timeout) while another connection is inside one, and holds it until     *)
(* commit; a statement that fails on the unique index leaves the           *)
(* transaction open.                                                       *)
(***************************************************************************)
RaceCluster == "c1"
RaceKey == KeyDeployApp
RacePayloads == {PayloadA, PayloadB}
RaceNow == 0

\* upsert_workload is entered with some payload
RaceCall(c) ==
  /\ conn[c].pc = "idle"
  /\ \E p \in RacePayloads :
       conn' = [conn EXCEPT ![c] = [IdleConn EXCEPT !.pc = "select", !.p = p]]
  /\ UNCHANGED <<workload, lock, staged, ret, gone, runVars, listVars, poolVars, normVars>>

\* lines 94-98: SELECT, fetchone, `if row is None`
RaceSelect(c) ==
  /\ conn[c].pc = "select"
  /\ LET row == SelectWorkload(workload, RaceCluster, RaceKey) IN
     conn' = [conn EXCEPT ![c].row = row,
                          ![c].pc = IF row = {} THEN "insert" ELSE "update"]
  /\ UNCHANGED <<workload, lock, staged, ret, gone, runVars, listVars, poolVars, normVars>>

\* lines 99-105: INSERT; the unique index raises IntegrityError, caught
RaceInsert(c) ==
  /\ conn[c].pc = "insert"
  /\ lock = 0
  /\ lock' = c
  /\ IF workload_identity(workload, RaceCluster, RaceKey)
       THEN /\ staged' = workload
            /\ conn' = [conn EXCEPT ![c].pc = "reread", ![c].lost = TRUE]
       ELSE /\ staged' = InsertWorkload(workload, RaceCluster, RaceKey, conn[c].p, RaceNow)
            /\ conn' = [conn EXCEPT ![c].pc = "commit", ![c].status = "inserted"]
  /\ UNCHANGED <<workload, ret, gone, runVars, listVars, poolVars, normVars>>

\* lines 106-111: re-read inside the open transaction; raise when still None
RaceReread(c) ==
  /\ conn[c].pc = "reread"
  /\ LET row == SelectWorkload(staged, RaceCluster, RaceKey) IN
     conn' = [conn EXCEPT ![c].row = row,
                          ![c].pc = IF row = {} THEN "raise" ELSE "update"]
  /\ UNCHANGED <<workload, lock, staged, ret, gone, runVars, listVars, poolVars, normVars>>

\* lines 112-122: compare the fetched hash with the incoming one and UPDATE
RaceUpdate(c) ==
  /\ conn[c].pc = "update"
  /\ lock \in {0, c}
  /\ lock' = c
  /\ LET res == CompareAndUpdate(conn[c].row, IF lock = c THEN staged ELSE workload,
                                 RaceCluster, RaceKey, conn[c].p, RaceNow) IN
     /\ staged' = res.tbl
     /\ conn' = [conn EXCEPT ![c].pc = "commit", ![c].status = res.status]
  /\ UNCHANGED <<workload, ret, gone, runVars, listVars, poolVars, normVars>>

\* lines 103, 117, 123: self._conn.commit()
RaceCommit(c) ==
  /\ conn[c].pc = "commit"
  /\ lock = c
  /\ workload' = staged
  /\ lock' = 0
  /\ staged' = {}
  /\ conn' = [conn EXCEPT ![c].pc = "done"]
  /\ UNCHANGED <<ret, gone, runVars, listVars, poolVars, normVars>>

\* lines 104, 118, 124: return (status, changed)
RaceReturn(c) ==
  /\ conn[c].pc = "done"
  /\ conn' = [conn EXCEPT ![c] = IdleConn]
  /\ UNCHANGED <<workload, lock, staged, ret, gone, runVars, listVars, poolVars, normVars>>

RaceCallStep == \E c \in Conns : RaceCall(c)
RaceSelectStep == \E c \in Conns : RaceSelect(c)
RaceInsertStep == \E c \in Conns : RaceInsert(c)
RaceRereadStep == \E c \in Conns : RaceReread(c)
RaceUpdateStep == \E c \in Conns : RaceUpdate(c)
RaceCommitStep == \E c \in Conns : RaceCommit(c)
RaceReturnStep == \E c \in Conns : RaceReturn(c)

NextRace ==
  \/ RaceCallStep
  \/ RaceSelectStep
  \/ RaceInsertStep
  \/ RaceRereadStep
  \/ RaceUpdateStep
  \/ RaceCommitStep
  \/ RaceReturnStep

SpecRace == Init /\ [][NextRace]_vars

(***************************************************************************)
(* The sync command on one cluster (SpecRun): run.py lines 134-240.        *)
(* Every task is a worker of the thread pool; the collecting loop,         *)
(* finalize and cleanup run on the calling thread.                         *)
(***************************************************************************)
\* the --kind option: not given, or the kinds given
KindOptions == {{}} \cup (SUBSET Kinds \ {{}})

\* target.include_kinds: every kind, or Node dropped from the configuration
IncludeKindsOptions == {Kinds, {"Deployment"}}

\* lines 134-201: the configuration is read, kind_map is resolved and one
\* task per kind of kind_map is submitted to the pool
RunStart ==
  /\ phase \in {"idle", "done"}
  /\ clock < MaxRuns
  /\ \E include_kinds \in IncludeKindsOptions, kind \in KindOptions :
       LET include == IF kind # {} THEN kind ELSE include_kinds
           kind_map == resolve_kinds(include)
       IN /\ kind_map # {}
          /\ configured' = include_kinds
          /\ task' = [k \in Kinds |->
                        IF k \in kind_map THEN [NoTask EXCEPT !.pc = "submitted"]
                        ELSE NoTask]
  /\ phase' = "tasks"
  /\ clock' = clock + 1
  /\ all_alive' = <<>>
  /\ successful_kinds' = <<>>
  /\ errors' = {}
  /\ removed' = 0
  /\ calls' = NoCalls
  /\ UNCHANGED <<node_capacity, storeVars, raceVars, listVars, poolVars, normVars>>

\* _fetch_and_sync_cluster, lines 176-179 with _fetch_kind_items: the
\* listing is iterated until the generator ends, and filtered; an exception
\* raised while iterating makes the task return {'kind', 'error'} and
\* drops what was listed; `listed` keeps the listing behind the task's items
TaskFetch(k) ==
  /\ phase \in {"tasks", "aborted"}
  /\ task[k].pc = "submitted"
  /\ \E listing \in Listings(k) : \E end \in EndsOf(listing) \cup {"raised"} :
       task' = IF FetchError(end)
                 THEN [task EXCEPT ![k].pc = "error", ![k].end = end]
                 ELSE [task EXCEPT ![k].pc = "sync", ![k].end = end,
                                   ![k].listed = listing,
                                   ![k].items = FilterItems(listing, STATIC_KIND_MAP(k).namespaced)]
  /\ UNCHANGED <<workload, ret, gone, raceVars, listVars, poolVars, normVars, node_capacity, phase, clock, configured,
                 all_alive, successful_kinds, errors, removed, calls>>

\* sync_kind, one pass of the loop over items (lines 30-55)
TaskSyncItem(k) ==
  /\ phase \in {"tasks", "aborted"}
  /\ task[k].pc = "sync"
  /\ task[k].idx <= Len(task[k].items)
  /\ LET item == task[k].items[task[k].idx]
         res == SyncItem(workload, node_capacity, k, item, clock)
     IN /\ workload' = res.workload
        /\ node_capacity' = res.node_capacity
        /\ task' = [task EXCEPT ![k].idx = @ + 1,
                                ![k].alive = Append(@, res.key),
                                ![k].alive_nodes =
                                   IF k = "Node" THEN Append(@, item.metadata.name) ELSE @]
  /\ UNCHANGED <<ret, gone, raceVars, listVars, poolVars, normVars, phase, clock, configured, all_alive,
                 successful_kinds, errors, removed, calls>>

\* sync_kind after the loop (lines 57-61) and the task's return (183-184)
TaskSyncEnd(k) ==
  /\ phase \in {"tasks", "aborted"}
  /\ task[k].pc = "sync"
  /\ task[k].idx > Len(task[k].items)
  /\ node_capacity' =
       IF k = "Node" /\ task[k].alive_nodes # <<>>
         THEN mark_nodes_deleted(node_capacity, RunCluster, Range(task[k].alive_nodes))
         ELSE node_capacity
  /\ task' = [task EXCEPT ![k].pc = "returned"]
  /\ UNCHANGED <<workload, ret, gone, raceVars, listVars, poolVars, normVars, phase, clock, configured, all_alive,
                 successful_kinds, errors, removed, calls>>

\* the collecting loop with fut.result() raising for a task that returned
\* an error: the run ends there
CollectRaisesOnError(k) ==
  /\ phase = "tasks"
  /\ task[k].pc \in {"returned", "error"}
  /\ IF task[k].pc = "error"
       THEN /\ phase' = "aborted"
            /\ UNCHANGED <<all_alive, successful_kinds, errors>>
       ELSE /\ all_alive' = all_alive \o task[k].alive
            /\ successful_kinds' =
                 IF k \in Range(successful_kinds) THEN successful_kinds
                 ELSE Append(successful_kinds, k)
            /\ UNCHANGED <<errors, phase>>
  /\ task' = [task EXCEPT ![k].pc = IF task[k].pc = "error" THEN "failed" ELSE "collected"]
  /\ UNCHANGED <<workload, ret, gone, raceVars, listVars, poolVars, normVars, node_capacity, clock, configured,
                 removed, calls>>

\* the loop over as_completed (lines 202-225) for one finished task
Collect(k) ==
  /\ phase = "tasks"
  /\ task[k].pc \in {"returned", "error"}
  /\ IF task[k].pc = "error"
       THEN /\ errors' = errors \cup {k}
            /\ UNCHANGED <<all_alive, successful_kinds>>
       ELSE /\ all_alive' = all_alive \o task[k].alive
            /\ successful_kinds' =
                 IF k \in Range(successful_kinds) THEN successful_kinds
                 ELSE Append(successful_kinds, k)
            /\ UNCHANGED errors
  /\ task' = [task EXCEPT ![k].pc = IF task[k].pc = "error" THEN "failed" ELSE "collected"]
  /\ UNCHANGED <<workload, ret, gone, raceVars, listVars, poolVars, normVars, node_capacity, phase, clock, configured,
                 removed, calls>>

\* finalize called as soon as one future has been collected
RunFinalizeEarly ==
  /\ phase = "tasks"
  /\ \E k \in Kinds : task[k].pc \in {"collected", "failed"}
  /\ LET res == mark_deleted(workload, RunCluster, Range(all_alive),
                             ScopeOf(Range(successful_kinds)))
     IN /\ workload' = res.tbl
        /\ removed' = res.removed
  /\ calls' = [calls EXCEPT !.finalize = @ + 1]
  /\ phase' = "finalized"
  /\ UNCHANGED <<ret, gone, raceVars, listVars, poolVars, normVars, node_capacity, clock, configured, task, all_alive,
                 successful_kinds, errors>>

\* SyncEngine.finalize (line 226), after every future has been collected
RunFinalize ==
  /\ phase = "tasks"
  /\ \A k \in Kinds : task[k].pc \in {"none", "collected", "failed"}
  /\ LET res == mark_deleted(workload, RunCluster, Range(all_alive),
                             ScopeOf(Range(successful_kinds)))
     IN /\ workload' = res.tbl
        /\ removed' = res.removed
  /\ calls' = [calls EXCEPT !.finalize = @ + 1]
  /\ phase' = "finalized"
  /\ UNCHANGED <<ret, gone, raceVars, listVars, poolVars, normVars, node_capacity, clock, configured, task, all_alive,
                 successful_kinds, errors>>

\* a summary that reports no kind
ExistingKindsNone(tbl, cluster) == {}

\* the kinds of the by_kind map of db.summary(cluster)
ExistingKinds(tbl, cluster) == {r.kind : r \in {x \in tbl : x.cluster = cluster}}

\* lines 227-240: obsolete kinds are purged and the summary is built
RunCleanup ==
  /\ phase = "finalized"
  /\ LET obsolete_kinds == ExistingKinds(workload, RunCluster) \ configured
         res == cleanup_obsolete_kinds(workload, RunCluster, obsolete_kinds)
     IN IF obsolete_kinds # {}
          THEN /\ workload' = res.tbl
               /\ removed' = removed + res.removed
               /\ calls' = [calls EXCEPT !.cleanup_kinds = @ + 1]
          ELSE UNCHANGED <<workload, removed, calls>>
  /\ phase' = "done"
  /\ UNCHANGED <<ret, gone, raceVars, listVars, poolVars, normVars, node_capacity, clock, configured, task, all_alive,
                 successful_kinds, errors>>

TaskFetchStep == \E k \in Kinds : TaskFetch(k)
TaskSyncItemStep == \E k \in Kinds : TaskSyncItem(k)
TaskSyncEndStep == \E k \in Kinds : TaskSyncEnd(k)
CollectStep == \E k \in Kinds : Collect(k)

NextRun ==
  \/ RunStart
  \/ TaskFetchStep
  \/ TaskSyncItemStep
  \/ TaskSyncEndStep
  \/ CollectStep
  \/ RunFinalize
  \/ RunCleanup

SpecRun == Init /\ [][NextRun]_vars

(***************************************************************************)
(* A run in which sync_kind can fail (SpecRunCrash).  The workers go on    *)
(* after the calling thread has left the collecting loop: leaving the with *)
(* block waits for every submitted task (phase "aborted").                 *)
(***************************************************************************)
\* the exception of a task recorded like a fetch error
CollectRaisedAsError(k) ==
  /\ phase = "tasks"
  /\ task[k].pc = "raised"
  /\ errors' = errors \cup {k}
  /\ task' = [task EXCEPT ![k].pc = "failed"]
  /\ UNCHANGED <<workload, ret, gone, raceVars, listVars, poolVars, normVars, node_capacity, phase, clock, configured,
                 all_alive, successful_kinds, removed, calls>>

\* _fetch_and_sync_cluster, lines 180-183: opening the connection, a store
\* call of sync_kind or closing raises; what was committed stays
TaskRaise(k) ==
  /\ phase \in {"tasks", "aborted"}
  /\ task[k].pc = "sync"
  /\ task' = [task EXCEPT ![k].pc = "raised", ![k].end = "crashed"]
  /\ UNCHANGED <<workload, ret, gone, raceVars, listVars, poolVars, normVars, node_capacity, phase, clock, configured,
                 all_alive, successful_kinds, errors, removed, calls>>

\* line 203: fut.result() raises the task's exception, which leaves the
\* loop, the with block and sync
CollectRaised(k) ==
  /\ phase = "tasks"
  /\ task[k].pc = "raised"
  /\ phase' = "aborted"
  /\ task' = [task EXCEPT ![k].pc = "propagated"]
  /\ UNCHANGED <<workload, ret, gone, raceVars, listVars, poolVars, normVars, node_capacity, clock, configured,
                 all_alive, successful_kinds, errors, removed, calls>>

TaskRaiseStep == \E k \in Kinds : TaskRaise(k)
CollectRaisedStep == \E k \in Kinds : CollectRaised(k)

NextRunCrash ==
  \/ RunStart
  \/ TaskFetchStep
  \/ TaskSyncItemStep
  \/ TaskSyncEndStep
  \/ CollectStep
  \/ RunFinalize
  \/ RunCleanup
  \/ TaskRaiseStep
  \/ CollectRaisedStep

SpecRunCrash == Init /\ [][NextRunCrash]_vars

\* One invocation of the command on an initialized, empty store, run to its
\* end.  The workers of the pool keep running and the calling thread,
\* blocked in as_completed, goes on when a future is done: a started run
\* keeps taking steps while one is possible.
RunStartFirst == phase = "idle" /\ RunStart

RunProgress ==
  \/ TaskFetchStep
  \/ TaskSyncItemStep
  \/ TaskSyncEndStep
  \/ CollectStep
  \/ RunFinalize
  \/ RunCleanup

FairRun == WF_vars(RunProgress)

NextRunFair ==
  \/ RunStartFirst
  \/ TaskFetchStep
  \/ TaskSyncItemStep
  \/ TaskSyncEndStep
  \/ CollectStep
  \/ RunFinalize
  \/ RunCleanup

SpecRunFair == Init /\ [][NextRunFair]_vars /\ FairRun

(***************************************************************************)
(* The command invoked again on a cluster that has not changed             *)
(* (SpecRunTwice): after a first run on the empty store, every further run *)
(* has the options of the run before it and is answered with the same      *)
(* listings, which end the same way.                                       *)
(***************************************************************************)
\* lines 134-201 of the next invocation: same include_kinds and --kind, so
\* the same kind_map; `listed` and `end` keep what the cluster answers
RunAgain ==
  /\ phase = "done"
  /\ clock < MaxRuns
  /\ task' = [k \in Kinds |->
                IF task[k].pc # "none"
                  THEN [NoTask EXCEPT !.pc = "resubmitted", !.listed = task[k].listed,
                                      !.end = task[k].end]
                  ELSE NoTask]
  /\ phase' = "tasks"
  /\ clock' = clock + 1
  /\ all_alive' = <<>>
  /\ successful_kinds' = <<>>
  /\ errors' = {}
  /\ removed' = 0
  /\ calls' = NoCalls
  /\ UNCHANGED <<configured, node_capacity, storeVars, raceVars, listVars, poolVars, normVars>>

\* _fetch_and_sync_cluster, lines 176-179, answered as in the run before
TaskFetchAgain(k) ==
  /\ phase = "tasks"
  /\ task[k].pc = "resubmitted"
  /\ task' = IF FetchError(task[k].end)
               THEN [task EXCEPT ![k].pc = "error"]
               ELSE [task EXCEPT ![k].pc = "sync",
                                 ![k].items = FilterItems(task[k].listed, STATIC_KIND_MAP(k).namespaced)]
  /\ UNCHANGED <<workload, ret, gone, raceVars, listVars, poolVars, normVars, node_capacity, phase, clock, configured,
                 all_alive, successful_kinds, errors, removed, calls>>

TaskFetchAgainStep == \E k \in Kinds : TaskFetchAgain(k)

NextRunTwice ==
  \/ RunStartFirst
  \/ RunAgain
  \/ TaskFetchStep
  \/ TaskFetchAgainStep
  \/ TaskSyncItemStep
  \/ TaskSyncEndStep
  \/ CollectStep
  \/ RunFinalize
  \/ RunCleanup

SpecRunTwice == Init /\ [][NextRunTwice]_vars

(***************************************************************************)
(* The sync command in namespace-scoped mode (SpecRunNs): run.py lines     *)
(* 156-241 with target.namespace_scoped true.  One task per (kind,         *)
(* namespace); the collecting loop, finalize and cleanup are the same      *)
(* statements as in cluster-wide mode.                                     *)
(***************************************************************************)
\* target.include_namespaces
RunNamespaces == {"ns1", "ns2"}

\* what list_namespaced_resources can yield for Deployments of a namespace
NsListings(ns) ==
  {<<>>,
   <<RawDeployment(ns, "app", "1", "1")>>,
   <<RawDeployment(ns, "app", "1", "1"), RawDeployment(ns, "web", "1", "1")>>}

\* line 206: key_for_errors = f"{kind_name}/{ns}" if ns else kind_name
key_for_errors(kind_name, ns) ==
  IF ns # NoNamespace THEN kind_name \o "/" \o ns ELSE kind_name

\* lines 134-201 in namespace mode: cluster-scoped kinds are filtered out
\* of kind_map and one task per (kind, namespace) is submitted
NsRunStart ==
  /\ phase \in {"idle", "done"}
  /\ clock < MaxRuns
  /\ \E include_kinds \in IncludeKindsOptions, kind \in KindOptions :
       LET include == IF kind # {} THEN kind ELSE include_kinds
           tasks == TasksOf(resolve_kinds(include), TRUE, RunNamespaces)
       IN /\ tasks # {}
          /\ configured' = include_kinds
          /\ task' = [t \in tasks |-> [NoTask EXCEPT !.pc = "submitted"]]
  /\ phase' = "tasks"
  /\ clock' = clock + 1
  /\ all_alive' = <<>>
  /\ successful_kinds' = <<>>
  /\ errors' = {}
  /\ removed' = 0
  /\ calls' = NoCalls
  /\ UNCHANGED <<node_capacity, storeVars, raceVars, listVars, poolVars, normVars>>

\* _fetch_and_sync_namespaced, lines 187-190 with _fetch_kind_items on a
\* namespace (lines 97-99): every item of the listing is kept
NsTaskFetch(t) ==
  /\ phase = "tasks"
  /\ t \in DOMAIN task /\ t \in TaskIds
  /\ task[t].pc = "submitted"
  /\ \E listing \in NsListings(t[2]) : \E end \in EndsOf(listing) \cup {"raised"} :
       task' = IF FetchError(end)
                 THEN [task EXCEPT ![t].pc = "error", ![t].end = end]
                 ELSE [task EXCEPT ![t].pc = "sync", ![t].end = end,
                                   ![t].listed = listing, ![t].items = listing]
  /\ UNCHANGED <<workload, ret, gone, raceVars, listVars, poolVars, normVars, node_capacity, phase, clock, configured,
                 all_alive, successful_kinds, errors, removed, calls>>

\* sync_kind called by the task (lines 191-193): one pass of its loop
NsTaskSyncItem(t) ==
  /\ phase = "tasks"
  /\ t \in DOMAIN task /\ t \in TaskIds
  /\ task[t].pc = "sync"
  /\ task[t].idx <= Len(task[t].items)
  /\ LET res == SyncItem(workload, node_capacity, t[1], task[t].items[task[t].idx], clock)
     IN /\ workload' = res.workload
        /\ task' = [task EXCEPT ![t].idx = @ + 1, ![t].alive = Append(@, res.key)]
  /\ UNCHANGED <<ret, gone, raceVars, listVars, poolVars, normVars, node_capacity, phase, clock, configured, all_alive,
                 successful_kinds, errors, removed, calls>>

\* sync_kind returns and the task returns its result (lines 194-195)
NsTaskSyncEnd(t) ==
  /\ phase = "tasks"
  /\ t \in DOMAIN task /\ t \in TaskIds
  /\ task[t].pc = "sync"
  /\ task[t].idx > Len(task[t].items)
  /\ task' = [task EXCEPT ![t].pc = "returned"]
  /\ UNCHANGED <<workload, ret, gone, raceVars, listVars, poolVars, normVars, node_capacity, phase, clock, configured,
                 all_alive, successful_kinds, errors, removed, calls>>

\* the loop over as_completed (lines 202-225) for one finished task
NsCollect(t) ==
  /\ phase = "tasks"
  /\ t \in DOMAIN task /\ t \in TaskIds
  /\ task[t].pc \in {"returned", "error"}
  /\ IF task[t].pc = "error"
       THEN /\ errors' = errors \cup {key_for_errors(t[1], t[2])}
            /\ UNCHANGED <<all_alive, successful_kinds>>
       ELSE /\ all_alive' = all_alive \o task[t].alive
            /\ successful_kinds' =
                 IF t[1] \in Range(successful_kinds) THEN successful_kinds
                 ELSE Append(successful_kinds, t[1])
            /\ UNCHANGED errors
  /\ task' = [task EXCEPT ![t].pc = IF task[t].pc = "error" THEN "failed" ELSE "collected"]
  /\ UNCHANGED <<workload, ret, gone, raceVars, listVars, poolVars, normVars, node_capacity, phase, clock, configured,
                 removed, calls>>

\* SyncEngine.finalize (line 226), after every future has been collected
NsRunFinalize ==
  /\ phase = "tasks"
  /\ \A t \in DOMAIN task : t \in TaskIds /\ task[t].pc \in {"collected", "failed"}
  /\ LET res == mark_deleted(workload, RunCluster, Range(all_alive),
                             ScopeOf(Range(successful_kinds)))
     IN /\ workload' = res.tbl
        /\ removed' = res.removed
  /\ calls' = [calls EXCEPT !.finalize = @ + 1]
  /\ phase' = "finalized"
  /\ UNCHANGED <<ret, gone, raceVars, listVars, poolVars, normVars, node_capacity, clock, configured, task, all_alive,
                 successful_kinds, errors>>

NsTaskFetchStep == \E t \in TaskIds : NsTaskFetch(t)
NsTaskSyncItemStep == \E t \in TaskIds : NsTaskSyncItem(t)
NsTaskSyncEndStep == \E t \in TaskIds : NsTaskSyncEnd(t)
NsCollectStep == \E t \in TaskIds : NsCollect(t)

NextRunNs ==
  \/ NsRunStart
  \/ NsTaskFetchStep
  \/ NsTaskSyncItemStep
  \/ NsTaskSyncEndStep
  \/ NsCollectStep
  \/ NsRunFinalize
  \/ RunCleanup

SpecRunNs == Init /\ [][NextRunNs]_vars

(***************************************************************************)
(* list_resources (SpecList): one step per call_api attempt.               *)
(***************************************************************************)
\* lines 58-61, 80-84 (99-102, 121-125): the request returns the next page
\* of the script; its items are yielded, cont is taken from
\* metadata.continue and the loop ends when it is falsy
ListPage ==
  /\ lc = "request"
  /\ served < Len(pages)
  /\ LET page == pages[served + 1] IN
     /\ requests' = Append(requests, Query(cont))
     /\ served' = served + 1
     /\ yielded' = yielded \o PageItems(served + 1, page.count)
     /\ cont' = page.cont
     /\ attempt' = 0
     /\ lc' = IF Falsy(page.cont) THEN "complete" ELSE "request"
  /\ all503' = FALSE
  /\ UNCHANGED <<pages, failures, namespace, storeVars, raceVars, runVars, poolVars, normVars>>

\* lines 62-72 (103-113): the request raises ApiException with a status
ListApiException(status) ==
  /\ lc = "request"
  /\ LET decision == IF namespace = NoNamespace
                       THEN OnApiException(status, attempt)
                       ELSE OnApiExceptionNamespaced(status, attempt)
     IN /\ lc' = AfterFailure(decision)
        /\ attempt' = IF decision = "retry" THEN attempt + 1 ELSE attempt
  /\ requests' = Append(requests, Query(cont))
  /\ failures' = failures + 1
  /\ all503' = (all503 /\ status = 503)
  /\ UNCHANGED <<pages, served, cont, yielded, namespace, storeVars, raceVars, runVars, poolVars, normVars>>

\* lines 73-79 (114-120): the request, or json.loads, raises any other
\* exception
ListException ==
  /\ lc = "request"
  /\ LET decision == IF namespace = NoNamespace
                       THEN OnException(attempt)
                       ELSE OnExceptionNamespaced(attempt)
     IN /\ lc' = AfterFailure(decision)
        /\ attempt' = IF decision = "retry" THEN attempt + 1 ELSE attempt
  /\ requests' = Append(requests, Query(cont))
  /\ failures' = failures + 1
  /\ all503' = FALSE
  /\ UNCHANGED <<pages, served, cont, yielded, namespace, storeVars, raceVars, runVars, poolVars, normVars>>

\* lines 80-82 (121-123): the body is JSON but no object, so payload.get
\* raises outside the try and the exception leaves the generator
ListMalformed ==
  /\ lc = "request"
  /\ lc' = "raised"
  /\ requests' = Append(requests, Query(cont))
  /\ failures' = failures + 1
  /\ all503' = FALSE
  /\ UNCHANGED <<pages, served, cont, attempt, yielded, namespace, storeVars, raceVars, runVars, poolVars, normVars>>

ListApiExceptionStep == \E status \in HttpStatuses : ListApiException(status)

NextList == ListPage \/ ListApiExceptionStep \/ ListException \/ ListMalformed

InitList == StoreInit /\ RaceInit /\ RunInit /\ ListInit /\ PoolInit /\ NormIdle

SpecList == InitList /\ [][NextList]_vars

(***************************************************************************)
(* normalize_manifest applied to raw objects (SpecNormalize).              *)
(***************************************************************************)
\* what metadata.annotations of a raw object can be
AnnotationShapes == {"absent", "none", "empty", "system", "user", "mixed"}

AnnotationsOf(shape) ==
  IF shape = "none" THEN NoneValue
  ELSE IF shape = "empty" THEN EmptyDict
  ELSE IF shape = "system"
    THEN [x \in {"kubectl.kubernetes.io/last-applied-configuration",
                 "openshift.io/generated-by"} |-> "v"]
  ELSE IF shape = "user" THEN [x \in {"user.annotation/key"} |-> "value"]
  ELSE [x \in {"deployment.kubernetes.io/revision", "user.annotation/key"} |-> "value"]

\* a raw object with the given noisy metadata fields, annotations and status
RawObject(noisy, shape, with_status) ==
  LET mkeys == {"name", "namespace", "labels"} \cup noisy
                 \cup (IF shape = "absent" THEN {} ELSE {"annotations"})
      meta == [x \in mkeys |->
                 IF x = "annotations" THEN AnnotationsOf(shape)
                 ELSE IF x = "labels" THEN [y \in {"app"} |-> "demo"]
                 ELSE IF x = "managedFields" THEN <<>>
                 ELSE x]
      tkeys == {"apiVersion", "kind", "metadata", "spec"}
                 \cup (IF with_status THEN {"status"} ELSE {})
  IN [x \in tkeys |->
        IF x = "metadata" THEN meta
        ELSE IF x = "spec" THEN [replicas |-> 1]
        ELSE IF x = "status" THEN [replicas |-> 1]
        ELSE x]

\* an object without metadata
RawObjectNoMetadata(with_status) ==
  [x \in {"apiVersion", "kind"} \cup (IF with_status THEN {"status"} ELSE {}) |->
     IF x = "status" THEN [replicas |-> 1] ELSE x]

RawObjects ==
  {RawObject(noisy, shape, with_status) :
     noisy \in SUBSET _STRIP_METADATA_FIELDS, shape \in AnnotationShapes,
     with_status \in BOOLEAN}
    \cup {RawObjectNoMetadata(with_status) : with_status \in BOOLEAN}

NormInit ==
  /\ doc \in RawObjects
  /\ normalized = 0
  /\ observed = EmptyDict

\* norm = normalize_manifest(item), and once more on the result
Normalize ==
  /\ normalized < 2
  /\ doc' = normalize_manifest(doc)
  /\ normalized' = normalized + 1
  /\ UNCHANGED observed
  /\ UNCHANGED <<storeVars, raceVars, runVars, listVars, poolVars>>

NextNormalize == Normalize

InitNormalize == StoreInit /\ RaceInit /\ RunInit /\ ListIdle /\ PoolInit /\ NormInit

SpecNormalize == InitNormalize /\ [][NextNormalize]_vars

(***************************************************************************)
(* sync_kind on the observations of one Deployment (SpecSyncKind).         *)
(***************************************************************************)
\* in what an observation differs from the plain one outside its content:
\* one of the fields normalization strips, the status, a system
\* annotation, or the order of its keys
SyncNoise ==
  {"none", "managedFields", "creationTimestamp", "resourceVersion", "uid",
   "generation", "status", "annotation", "order"}

\* in what an observation differs from the plain one in its content
SyncContents == {"plain", "label", "replicas"}

\* the raw Deployment ns1/app as listed with the given differences
SyncObject(noise, content) ==
  LET v(f) == IF noise = f THEN "2" ELSE "1"
      labels == IF content = "label"
                  THEN [x \in {"app", "tier"} |-> "demo"]
                  ELSE [x \in {"app"} |-> "demo"]
      meta == [name |-> "app", namespace |-> "ns1", labels |-> labels,
               managedFields |-> <<v("managedFields")>>,
               creationTimestamp |-> v("creationTimestamp"),
               resourceVersion |-> v("resourceVersion"),
               uid |-> v("uid"),
               generation |-> v("generation"),
               annotations |-> [x \in {"deployment.kubernetes.io/revision"} |-> v("annotation")]]
  IN [x \in {"apiVersion", "kind", "metadata", "spec", "status", KeyOrder} |->
        IF x = "apiVersion" THEN "apps/v1"
        ELSE IF x = "kind" THEN "Deployment"
        ELSE IF x = "metadata" THEN meta
        ELSE IF x = "spec" THEN [replicas |-> IF content = "replicas" THEN "3" ELSE "1"]
        ELSE IF x = "status" THEN [observedGeneration |-> v("status")]
        ELSE v("order")]

SyncObjects == {SyncObject(noise, content) : noise \in SyncNoise, content \in SyncContents}

\* one pass of the loop of sync_kind (lines 30-55) for a Deployment item,
\* with the status upsert_workload returned
CallSyncKindItem(item, now) ==
  LET kind == "Deployment"
      res == upsert_workload(workload, RunCluster, ItemKey(kind, item),
                             ItemPayload(STATIC_KIND_MAP(kind).api_version, item), now)
  IN /\ workload' = res.tbl
     /\ ret' = [op |-> "sync_kind", status |-> res.status, removed |-> 0]
     /\ doc' = item
     /\ observed' = IF res.status \in {"inserted", "updated"} THEN item ELSE observed
     /\ UNCHANGED <<gone, normalized, raceVars, runVars, listVars, poolVars>>

SyncKindItemStep == \E item \in SyncObjects, now \in Times : CallSyncKindItem(item, now)

NextSyncKind == SyncKindItemStep

SpecSyncKind == Init /\ [][NextSyncKind]_vars

(***************************************************************************)
(* The node_capacity API called on one connection (SpecNode).              *)
(***************************************************************************)
\* the role labels lines 205-207 look for
NodeLabelKeys ==
  {"node-role.kubernetes.io/master", "node-role.kubernetes.io/control-plane",
   "node-role.kubernetes.io/infra"}

\* the label sets of the node manifests: every combination of the role
\* labels looked for, and a node that carries the worker role label
NodeLabelSets == (SUBSET NodeLabelKeys) \cup {{"node-role.kubernetes.io/worker"}}

NodeNames == {"n1", "n2"}

\* a node manifest whose metadata.labels has the keys of ls
NodeWithLabels(name, ls) ==
  [apiVersion |-> "v1", kind |-> "Node",
   metadata |-> [name |-> name, labels |-> [x \in ls |-> ""]],
   status |-> [capacity |-> [cpu |-> "4", memory |-> "16Gi"]]]

\* a node manifest without metadata.labels
NodeWithoutLabels(name) ==
  [apiVersion |-> "v1", kind |-> "Node",
   metadata |-> [name |-> name],
   status |-> [capacity |-> [cpu |-> "4", memory |-> "16Gi"]]]

NodeManifests ==
  {NodeWithLabels(n, ls) : n \in NodeNames, ls \in NodeLabelSets}
    \cup {NodeWithoutLabels(n) : n \in NodeNames}

\* the variables of a run other than the table node_capacity
runRest == <<phase, clock, configured, task, all_alive, successful_kinds, errors,
             removed, calls>>

CallUpsertNodeCapacity(cluster, node_data, now) ==
  /\ node_capacity' = upsert_node_capacity(node_capacity, cluster,
                                           node_data.metadata.name, node_data, now)
  /\ UNCHANGED <<storeVars, raceVars, listVars, poolVars, normVars, runRest>>

CallMarkNodesDeleted(cluster, alive_nodes) ==
  /\ node_capacity' = mark_nodes_deleted(node_capacity, cluster, alive_nodes)
  /\ UNCHANGED <<storeVars, raceVars, listVars, poolVars, normVars, runRest>>

UpsertNodeStep ==
  \E node_data \in NodeManifests, now \in Times :
    CallUpsertNodeCapacity(RunCluster, node_data, now)

MarkNodesDeletedStep ==
  \E alive_nodes \in SUBSET NodeNames : CallMarkNodesDeleted(RunCluster, alive_nodes)

NextNode == UpsertNodeStep \/ MarkNodesDeletedStep

SpecNode == Init /\ [][NextNode]_vars

(***************************************************************************)
(* The worker pool of one run after the other (SpecPool): the tasks are    *)
(* taken as what the pool sees of them, started and finished.              *)
(* ThreadPoolExecutor(max_workers) raises ValueError when max_workers <= 0 *)
(* and never has more than max_workers work items running.                 *)
(***************************************************************************)
\* lines 136-201: the checks of the run are passed (kind_map is not empty,
\* namespace mode has namespaces), the tasks are laid out, the executor is
\* made and every task is submitted
PoolStart ==
  /\ pool.phase \in {"idle", "joined", "crashed"}
  /\ \E parallelism \in Parallelisms, namespace_mode \in BOOLEAN,
        kind_map \in SUBSET Kinds \ {{}},
        include_namespaces \in SUBSET IncludeNamespaces :
       /\ namespace_mode <=> include_namespaces # {}
       /\ LET tasks == TasksOf(kind_map, namespace_mode, include_namespaces)
              max_workers == MaxWorkers(parallelism, Cardinality(tasks))
          IN pool' = [phase |-> IF max_workers <= 0 THEN "crashed" ELSE "pool",
                      parallelism |-> parallelism,
                      namespace_mode |-> namespace_mode,
                      tasks |-> tasks,
                      max_workers |-> max_workers,
                      st |-> [t \in TaskIds |->
                                IF t \in tasks /\ max_workers > 0 THEN "queued" ELSE "none"],
                      runs |-> [t \in TaskIds |-> 0]]
  /\ UNCHANGED <<storeVars, raceVars, runVars, listVars, normVars>>

\* a worker thread of the executor takes a submitted task
PoolDispatch(t) ==
  /\ pool.phase = "pool"
  /\ pool.st[t] = "queued"
  /\ Cardinality({u \in TaskIds : pool.st[u] = "running"}) < pool.max_workers
  /\ pool' = [pool EXCEPT !.st[t] = "running", !.runs[t] = @ + 1]
  /\ UNCHANGED <<storeVars, raceVars, runVars, listVars, normVars>>

\* _fetch_and_sync_cluster / _fetch_and_sync_namespaced returns
PoolFinish(t) ==
  /\ pool.phase = "pool"
  /\ pool.st[t] = "running"
  /\ pool' = [pool EXCEPT !.st[t] = "done"]
  /\ UNCHANGED <<storeVars, raceVars, runVars, listVars, normVars>>

\* lines 202-225: as_completed hands the finished future to the loop
PoolCollect(t) ==
  /\ pool.phase = "pool"
  /\ pool.st[t] = "done"
  /\ pool' = [pool EXCEPT !.st[t] = "collected"]
  /\ UNCHANGED <<storeVars, raceVars, runVars, listVars, normVars>>

\* the with block is left (line 226 is next)
PoolJoin ==
  /\ pool.phase = "pool"
  /\ \A t \in pool.tasks : pool.st[t] = "collected"
  /\ pool' = [pool EXCEPT !.phase = "joined"]
  /\ UNCHANGED <<storeVars, raceVars, runVars, listVars, normVars>>

PoolDispatchStep == \E t \in TaskIds : PoolDispatch(t)
PoolFinishStep == \E t \in TaskIds : PoolFinish(t)
PoolCollectStep == \E t \in TaskIds : PoolCollect(t)

NextPool ==
  \/ PoolStart
  \/ PoolDispatchStep
  \/ PoolFinishStep
  \/ PoolCollectStep
  \/ PoolJoin

SpecPool == Init /\ [][NextPool]_vars

(***************************************************************************)
(* Claims about the store API, checked under Spec.                         *)
(***************************************************************************)
TheRow(rows) == CHOOSE r \in rows : TRUE

\* C2: for every call mark_deleted(cluster, alive_keys, kinds_scope) with a
\* kinds_scope collection supplied (of any size, the empty one included),
\* every row whose kind is not a member of kinds_scope is left unchanged.
C2_ScopedDeleteLeavesOtherKinds ==
  [][\A cluster \in Clusters, alive_keys \in SUBSET Keys, scope \in Scopes :
       (scope.given /\ ret'.op = "mark_deleted"
          /\ CallMarkDeleted(cluster, alive_keys, scope))
         => \A r \in workload : r.kind \notin scope.kinds => r \in workload']_vars

\* C4: mark_deleted deletes exactly the rows of the cluster (of the kinds of
\* kinds_scope when a kinds_scope is given) whose key is not in alive_keys,
\* keeps every other row, and returns the number of rows it deleted.
C4_MarkDeletedExact ==
  [][\A cluster \in Clusters, alive_keys \in SUBSET Keys, scope \in Scopes :
       (ret'.op = "mark_deleted" /\ CallMarkDeleted(cluster, alive_keys, scope))
         => LET doomed == {r \in workload :
                             /\ r.cluster = cluster
                             /\ scope.given => r.kind \in scope.kinds
                             /\ KeyOf(r) \notin alive_keys} IN
            /\ workload' = workload \ doomed
            /\ ret'.removed = Cardinality(doomed)]_vars

\* C5: upsert_workload returns 'inserted' when no row exists for the
\* identity (the new row carries the call's arguments), 'unchanged' when the
\* stored hash equals the incoming one (only last_seen changes), 'updated'
\* when it differs (api_version, resource_version, uid, manifest_json,
\* manifest_hash and last_seen are overwritten, nothing else).
C5_UpsertClassification ==
  [][\A u \in UpsertInputs :
       (ret'.op = "upsert_workload"
          /\ CallUpsertWorkload(u[1][1], u[1][2], u[2], u[3]))
         => LET cluster == u[1][1]
                k == u[1][2]
                p == u[2]
                now == u[3]
                old == SelectWorkload(workload, cluster, k)
                new == SelectWorkload(workload', cluster, k) IN
            /\ old = {} =>
                  /\ ret'.status = "inserted"
                  /\ new = {NewRow(cluster, k, p, now)}
            /\ (old # {} /\ TheRow(old).manifest_hash = p.manifest_hash) =>
                  /\ ret'.status = "unchanged"
                  /\ new = {[TheRow(old) EXCEPT !.last_seen = now]}
            /\ (old # {} /\ TheRow(old).manifest_hash # p.manifest_hash) =>
                  /\ ret'.status = "updated"
                  /\ new = {[TheRow(old) EXCEPT
                               !.api_version = p.api_version,
                               !.resource_version = p.resource_version,
                               !.uid = p.uid,
                               !.manifest_json = p.manifest_json,
                               !.manifest_hash = p.manifest_hash,
                               !.last_seen = now]}
            /\ \A r \in workload : ~Match(r, cluster, k) => r \in workload']_vars

\* an 'unchanged' upsert has happened: the stored manifest is still the one
\* of the insert while last_seen has moved away from first_seen
C5_Witness ==
  /\ ret.op = "upsert_workload" /\ ret.status = "unchanged"
  /\ \E r \in workload : r.manifest_json = "mA" /\ r.first_seen # r.last_seen

\* C6: an upsert of an identity that has a row keeps the row's first_seen,
\* an upsert that inserts sets first_seen to the call's timestamp, and in
\* both cases last_seen is the timestamp of the call.
C6_FirstSeenLastSeen ==
  [][\A u \in UpsertInputs :
       (ret'.op = "upsert_workload"
          /\ CallUpsertWorkload(u[1][1], u[1][2], u[2], u[3]))
         => LET old == SelectWorkload(workload, u[1][1], u[1][2])
                new == SelectWorkload(workload', u[1][1], u[1][2])
                now == u[3] IN
            /\ new # {}
            /\ \A n \in new :
                 /\ n.last_seen = now
                 /\ n.first_seen = IF old = {} THEN now ELSE TheRow(old).first_seen]_vars

\* an 'updated' upsert has happened on a row inserted at another time
C6_Witness ==
  /\ ret.op = "upsert_workload" /\ ret.status = "updated"
  /\ \E r \in workload : r.manifest_hash = "hashB" /\ r.first_seen # r.last_seen

\* C7: the first upsert of an identity after mark_deleted removed it returns
\* 'inserted' also when it carries the hash stored before the deletion, and
\* the row starts again with first_seen = the call's timestamp; an upsert
\* with another hash on the row that then exists returns 'updated'.
C7_ReinsertAfterDelete ==
  [][\A u \in UpsertInputs :
       (ret'.op = "upsert_workload"
          /\ CallUpsertWorkload(u[1][1], u[1][2], u[2], u[3]))
         => /\ (u[1] \in Tracked /\ gone[u[1]] = u[2].manifest_hash) =>
                 /\ ret'.status = "inserted"
                 /\ \A n \in SelectWorkload(workload', u[1][1], u[1][2]) :
                      n.first_seen = u[3] /\ n.deleted = 0
            /\ (/\ u[1] \in Tracked
                /\ gone[u[1]] = "reinserted"
                /\ \E r \in SelectWorkload(workload, u[1][1], u[1][2]) :
                     r.manifest_hash # u[2].manifest_hash) =>
                 ret'.status = "updated"]_vars

\* the identity was deleted and upserted again with the hash it had
C7_Witness ==
  /\ ret.op = "upsert_workload" /\ ret.status = "inserted"
  /\ gone[<<"c1", KeyDeployApp>>] = "reinserted"
  /\ SelectWorkload(workload, "c1", KeyDeployApp) # {}

\* C8: cleanup_obsolete_kinds(cluster, kinds) deletes every row of the
\* cluster whose kind is in kinds, leaves every other row unchanged and
\* returns the number of rows deleted.
C8_CleanupPurgesKinds ==
  [][\A cluster \in Clusters, kinds \in SUBSET Kinds :
       (ret'.op = "cleanup_obsolete_kinds"
          /\ CallCleanupObsoleteKinds(cluster, kinds))
         => /\ workload' = {r \in workload : ~(r.cluster = cluster /\ r.kind \in kinds)}
            /\ ret'.removed = Cardinality(workload \ workload')]_vars

\* a cleanup has removed rows of one cluster while a row of the other stays
C8_Witness ==
  /\ ret.op = "cleanup_obsolete_kinds" /\ ret.removed > 0
  /\ \E r \in workload : r.cluster = "c2"

(***************************************************************************)
(* Claims about concurrent upserts, checked under SpecRace.                *)
(***************************************************************************)
\* C9: under every interleaving of upsert_workload calls of several
\* connections on one identity the table never holds two rows of the
\* identity, no call raises the IntegrityError, and a call whose INSERT hit
\* the unique index returns 'unchanged' or 'updated' according to the
\* comparison of its hash with the hash of the row it re-read.
C9_RaceSafeUpsert ==
  /\ Cardinality(SelectWorkload(workload, RaceCluster, RaceKey)) <= 1
  /\ \A c \in Conns :
       /\ conn[c].pc # "raise"
       /\ (conn[c].pc = "done" /\ conn[c].lost) =>
            /\ conn[c].row # {}
            /\ conn[c].status =
                 IF TheRow(conn[c].row).manifest_hash = conn[c].p.manifest_hash
                   THEN "unchanged" ELSE "updated"

\* a call lost the insert race and came back 'updated'
C9_Witness ==
  \E c \in Conns :
    conn[c].pc = "done" /\ conn[c].lost /\ conn[c].status = "updated"

(***************************************************************************)
(* Claims about a sync run, checked under SpecRun.                         *)
(***************************************************************************)
\* the (kind, namespace, name) keys of the cluster's rows of a kind
RowKeys(tbl, cluster, kind) ==
  {KeyOf(r) : r \in {x \in tbl : x.cluster = cluster /\ x.kind = kind}}

\* C1: once finalize has run, for every kind K whose task returned without
\* error and that is in kinds_scope, the keys of the cluster's rows of kind
\* K are exactly the keys of the items of K's stream of this run.
C1_SnapshotEqualsStream ==
  phase = "finalized" =>
    \A k \in Kinds :
      (task[k].pc = "collected" /\ k \in Range(successful_kinds)) =>
        RowKeys(workload, RunCluster, k) = {ItemKey(k, i) : i \in Range(task[k].items)}

\* finalize has removed a row of a kind whose stream was not empty
C1_Witness ==
  /\ phase = "finalized"
  /\ removed > 0
  /\ task["Deployment"].pc = "collected"
  /\ task["Node"].pc = "none"
  /\ task["Deployment"].items # <<>>

\* C3: when the task of kind K2 reported a fetch error, the finalize step of
\* the run removes no row of kind K2, whatever the other tasks returned
\* (also when every task reported a fetch error).
C3_FailedKindProtected ==
  [][RunFinalize =>
       \A k2 \in errors :
         \A r \in workload : (r.cluster = RunCluster /\ r.kind = k2) => r \in workload']_vars

(***************************************************************************)
(* Claims about the listing client, checked under SpecList.                *)
(***************************************************************************)
RECURSIVE ConcatPages(_, _)
\* the items of pages 1..n of a script, in page order
ConcatPages(sc, n) ==
  IF n = 0 THEN <<>> ELSE ConcatPages(sc, n - 1) \o PageItems(n, sc[n].count)

\* C10: against a backend that answers every request with the next of its N
\* pages, the client issues one request per page, the first without a
\* token and each later one with the token of the page before, has yielded
\* the concatenation of the pages received so far, and stops exactly when
\* the N-th page (the one without token) has arrived.
C10_Pagination ==
  failures = 0 =>
    /\ Len(requests) = served
    /\ \A i \in 1..Len(requests) :
         requests[i] = IF i = 1 THEN "" ELSE pages[i - 1].cont
    /\ yielded = ConcatPages(pages, served)
    /\ lc = IF served = Len(pages) THEN "complete" ELSE "request"

\* a script of three pages has been listed to the end without a failure
C10_Witness ==
  /\ lc = "complete" /\ failures = 0
  /\ Len(pages) = 3 /\ Len(requests) = 3
  /\ pages[1].cont # pages[2].cont
  /\ Len(yielded) >= 2

\* the number of requests issued so far with the query string q; the tokens
\* of a script differ from page to page, so these are the attempts made for
\* the page that q asks for
Attempts(reqs, q) == Cardinality({i \in 1..Len(reqs) : reqs[i] = q})

\* C11: no page of a listing gets more than max_retries + 1 request
\* attempts, the attempt counter counts the failed attempts of the current
\* page only (it is zero when a new page is asked for), and while the
\* backend has answered every attempt with HTTP 503 the client ends exactly
\* at attempt max_retries + 1, having yielded nothing.
C11_RetryCeiling ==
  /\ \A q \in Range(requests) : Attempts(requests, q) <= max_retries + 1
  /\ lc = "request" => attempt = Attempts(requests, Query(cont))
  /\ (all503 /\ lc # "idle") =>
       /\ yielded = <<>>
       /\ lc \in {"request", "failed"}
       /\ lc = "failed" <=> Len(requests) = max_retries + 1
       /\ Len(requests) <= max_retries + 1

\* a backend that answered 503 every time made the client give up
C11_Witness ==
  /\ all503 /\ lc = "failed"
  /\ Len(requests) = max_retries + 1
  /\ namespace # NoNamespace

\* the second page was asked for max_retries + 1 times after the first page
\* had needed retries as well
C11_WitnessSecondPage ==
  /\ served >= 1 /\ Len(requests) = 2 * (max_retries + 1)
  /\ Attempts(requests, "") = max_retries + 1
  /\ lc = "failed"

\* C12: a failed request attempt is handled by its error class, in
\* list_resources and in list_namespaced_resources alike: 403 and 404 end
\* the stream without a retry; 429, 500, 502, 503, 504 and every exception
\* that is no ApiException repeat the request of the page while fewer than
\* max_retries attempts of the page have failed, and end the stream
\* otherwise; every other status ends the stream at once.
C12_ErrorClassification ==
  [][failures' = failures + 1 =>
       LET n == Attempts(requests, Query(cont))
           retried == lc' = "request" /\ cont' = cont /\ served' = served
           ended == lc' \in {"skip", "failed"}
       IN /\ \A status \in HttpStatuses :
               ListApiException(status) =>
                 IF status \in {403, 404} THEN lc' = "skip"
                 ELSE IF status \in {429, 500, 502, 503, 504}
                   THEN IF n < max_retries THEN retried ELSE lc' = "failed"
                 ELSE lc' = "failed"
          /\ ListException => IF n < max_retries THEN retried ELSE lc' = "failed"
          /\ (ListApiExceptionStep \/ ListException) => (retried \/ ended)]_vars

\* the namespaced listing was refused with 403 or 404 after it had retried
\* a transient failure of the same page
C12_Witness ==
  /\ namespace # NoNamespace
  /\ lc = "skip"
  /\ attempt > 0
  /\ served > 0

(***************************************************************************)
(* Claims about listing errors inside a sync run, checked under SpecRun.   *)
(***************************************************************************)
\* C13: when the listing of a kind ended on a 403 or 404, the task of the
\* kind has no entry in errors, the kind is in the kinds_scope given to
\* finalize, and finalize removes every stored row of the kind whose key
\* was not yielded in this run.
C13_ForbiddenKindInScope ==
  [][RunFinalize =>
       \A k \in Kinds :
         task[k].end = "skip" =>
           /\ k \notin errors
           /\ k \in Range(successful_kinds)
           /\ \A r \in workload :
                (/\ r.cluster = RunCluster
                 /\ r.kind = k
                 /\ KeyOf(r) \notin {ItemKey(k, i) : i \in Range(task[k].items)})
                  => r \notin workload']_vars

\* a run of the Deployment kind alone whose listing ended on 403/404 has
\* removed rows in finalize
C13_Witness ==
  /\ phase = "finalized"
  /\ task["Deployment"].end = "skip"
  /\ task["Node"].pc = "none"
  /\ removed > 0

\* C14: when the listing of a kind ended on the retry ceiling or on an HTTP
\* error that is neither 403/404 nor retried, the run's errors hold an
\* entry for the kind and the kind is not in the kinds_scope of finalize.
C14_FailedListingReported ==
  phase \in {"finalized", "done"} =>
    \A k \in Kinds :
      task[k].end = "failed" =>
        /\ k \in errors
        /\ k \notin Range(successful_kinds)

\* C15: a task that reported a fetch error ends neither the run nor another
\* task: collecting its result changes no other task and leaves the run
\* going; at finalize every task that returned without error has its alive
\* keys in all_alive and its kind in kinds_scope; and the run goes on to
\* finalize and cleanup.
C15_FailureIsolation ==
  /\ [][\A k \in Kinds :
          (Collect(k) /\ task[k].pc = "error") =>
            /\ phase' = "tasks"
            /\ k \in errors'
            /\ \A j \in Kinds \ {k} : task'[j] = task[j]]_vars
  /\ [][(RunFinalize /\ errors # {}) =>
          \A j \in Kinds \ errors :
            task[j].pc # "none" =>
              /\ task[j].pc = "collected"
              /\ task[j].idx = Len(task[j].items) + 1
              /\ Range(task[j].alive) \subseteq Range(all_alive)
              /\ j \in Range(successful_kinds)]_vars
  /\ [][phase' = "done" => (phase = "finalized" \/ phase = "done")]_vars
  /\ (phase = "tasks" /\ errors # {}) ~> (phase = "done")

\* a run in which the Node task reported a fetch error has synced its
\* Deployment items and has gone through finalize and cleanup
C15_Witness ==
  /\ phase = "done"
  /\ errors = {"Node"}
  /\ task["Deployment"].pc = "collected"
  /\ task["Deployment"].items # <<>>
  /\ Range(task["Deployment"].alive) \subseteq Range(all_alive)

\* the identities that have a row in the table
Ids(tbl) == {<<r.cluster, KeyOf(r)>> : r \in tbl}

\* the task has been started by the pool and has not returned yet
Running(t) == t.pc \in {"submitted", "sync"}

\* C16: in one run finalize is called at most once, and once when the run
\* is done, cleanup at most once; both are called by the calling thread (no
\* task moves in that step) and only when no task of the run is still
\* running; no step taken while a task is running removes a workload row.
C16_FinalizeAfterBarrier ==
  /\ [](calls.finalize <= 1 /\ calls.cleanup_kinds <= 1)
  /\ [](phase = "done" => calls.finalize = 1)
  /\ [][(calls' # calls /\ clock' = clock) =>
          /\ \A k \in Kinds : ~Running(task[k])
          /\ task' = task]_vars
  /\ [][(\E k \in Kinds : Running(task[k])) => Ids(workload) \subseteq Ids(workload')]_vars

\* a run of both kinds has called finalize once and cleanup once, and both
\* removed rows
C16_Witness ==
  /\ phase = "done"
  /\ calls = [finalize |-> 1, cleanup_kinds |-> 1]
  /\ \A k \in Kinds : task[k].pc = "collected"
  /\ removed > 1

(***************************************************************************)
(* Claims about the worker pool, checked under SpecPool.                   *)
(***************************************************************************)
RunningTasks == {t \in TaskIds : pool.st[t] = "running"}

\* C17: in a run that has passed its checks no task is started twice, never
\* more than min(parallelism, task_count) tasks are running, and when the
\* run has left the pool, in whatever way, every task has been executed
\* exactly once.
C17_PoolRunsEachTaskOnce ==
  /\ \A t \in TaskIds : pool.runs[t] <= 1
  /\ Cardinality(RunningTasks) <= Min(pool.parallelism, Cardinality(pool.tasks))
  /\ pool.phase \in {"joined", "crashed"} =>
       \A t \in pool.tasks : pool.runs[t] = 1

\* what holds of the pool: the bound on the running tasks in every run, and
\* one execution of every task in the runs that get an executor, which are
\* the runs with a positive parallelism and at least one task
PoolBoundPositiveParallelism ==
  /\ \A t \in TaskIds : pool.runs[t] <= 1
  /\ Cardinality(RunningTasks) <= Min(pool.parallelism, Cardinality(pool.tasks))
  /\ pool.phase = "joined" =>
       \A t \in TaskIds : pool.runs[t] = IF t \in pool.tasks THEN 1 ELSE 0
  /\ pool.phase = "crashed" => (pool.parallelism <= 0 \/ pool.tasks = {})

\* two of three namespace tasks occupy a pool of two workers, the third waits
PoolFull ==
  /\ pool.phase = "pool"
  /\ pool.namespace_mode
  /\ Cardinality(pool.tasks) = 3
  /\ Cardinality(RunningTasks) = 2
  /\ \E t \in pool.tasks : pool.st[t] = "queued"

(***************************************************************************)
(* Claims about the node_capacity API, checked under SpecNode.             *)
(***************************************************************************)
\* the label keys of a node manifest, none when metadata has no labels
LabelKeysOf(node_data) ==
  IF "labels" \in DOMAIN node_data.metadata THEN DOMAIN node_data.metadata.labels ELSE {}

\* C18: every upsert_node_capacity, the inserting and the updating one,
\* leaves the node's row with node_role 'master' when the master or the
\* control-plane role label is among the labels (whether or not the infra
\* label is), else 'infra' when the infra role label is, else 'worker'.
C18_NodeRoleFromLabels ==
  [][\A node_data \in NodeManifests, now \in Times :
       CallUpsertNodeCapacity(RunCluster, node_data, now) =>
         LET ls == LabelKeysOf(node_data)
             rows == {r \in node_capacity' :
                        r.cluster = RunCluster /\ r.node_name = node_data.metadata.name}
             role == IF ls \cap {"node-role.kubernetes.io/master",
                                 "node-role.kubernetes.io/control-plane"} # {}
                       THEN "master"
                     ELSE IF "node-role.kubernetes.io/infra" \in ls THEN "infra"
                     ELSE "worker"
         IN /\ rows # {}
            /\ \A r \in rows : r.node_role = role]_vars

\* one node was upserted a second time and is a master, the other is a worker
C18_Witness ==
  /\ \E r \in node_capacity :
       r.node_name = "n1" /\ r.node_role = "master" /\ r.first_seen # r.last_seen
  /\ \E r \in node_capacity : r.node_name = "n2" /\ r.node_role = "worker"

(***************************************************************************)
(* Claims about normalization, checked under SpecNormalize.                *)
(***************************************************************************)
\* C19: what normalize_manifest returns has no top-level status, none of
\* the metadata fields managedFields, creationTimestamp, resourceVersion,
\* uid, generation, no annotation with a system prefix and no empty
\* annotations map, and normalize_manifest maps it to itself.
C19_NormalizeIdempotent ==
  normalized >= 1 =>
    /\ "status" \notin DOMAIN doc
    /\ "metadata" \in DOMAIN doc =>
         LET meta == doc.metadata IN
         /\ DOMAIN meta \cap {"managedFields", "creationTimestamp", "resourceVersion",
                               "uid", "generation"} = {}
         /\ "annotations" \in DOMAIN meta =>
              /\ meta.annotations # NoneValue
              /\ DOMAIN meta.annotations # {}
              /\ DOMAIN meta.annotations \cap
                    {"kubectl.kubernetes.io/last-applied-configuration",
                     "deployment.kubernetes.io/revision",
                     "openshift.io/generated-by"} = {}
    /\ normalize_manifest(doc) = doc

\* an object normalized twice that has kept its user annotation
C19_Witness ==
  /\ normalized = 2
  /\ "metadata" \in DOMAIN doc
  /\ "annotations" \in DOMAIN doc.metadata
  /\ DOMAIN doc.metadata.annotations = {"user.annotation/key"}

(***************************************************************************)
(* Claims about change detection, checked under SpecSyncKind.              *)
(***************************************************************************)
\* what of a raw object is neither stripped by normalization nor a matter
\* of key order
Content(item) ==
  [apiVersion |-> item.apiVersion, kind |-> item.kind,
   name |-> item.metadata.name, namespace |-> item.metadata.namespace,
   labels |-> item.metadata.labels, spec |-> item.spec]

\* C20: when sync_kind sees an identity that has a row, the upsert returns
\* 'unchanged' and keeps the stored hash if the raw item differs from the
\* one the row was written from only in stripped fields, the status, system
\* annotations or key order, and returns 'updated' with another stored hash
\* if the content differs.
C20_ChangeDetection ==
  [][(ret'.op = "sync_kind" /\ doc' \in SyncObjects /\ workload # {}) =>
       LET old == TheRow(workload)
           new == TheRow(workload')
       IN IF Content(doc') = Content(observed)
            THEN /\ ret'.status = "unchanged"
                 /\ new.manifest_hash = old.manifest_hash
                 /\ new.manifest_json = old.manifest_json
            ELSE /\ ret'.status = "updated"
                 /\ new.manifest_hash # old.manifest_hash
                 /\ new.manifest_hash = sha256_of_manifest(normalize_manifest(doc'))]_vars

\* an item that differs from the stored one in its key order only came back
\* 'unchanged'
C20_Witness ==
  /\ ret.op = "sync_kind" /\ ret.status = "unchanged"
  /\ doc[KeyOrder] # observed[KeyOrder]
  /\ doc.metadata = observed.metadata

\* an item with a label added came back 'updated'
C20_WitnessUpdated ==
  /\ ret.op = "sync_kind" /\ ret.status = "updated"
  /\ DOMAIN doc.metadata.labels = {"app", "tier"}
  /\ doc = observed

(***************************************************************************)
(* Claims about the run, checked under SpecRun (continued).                *)
(***************************************************************************)
\* the namespace _fetch_kind_items tests of an item
NamespaceOf(item) ==
  IF "metadata" \in DOMAIN item /\ "namespace" \in DOMAIN item.metadata
    THEN item.metadata.namespace
    ELSE "default"

\* the positions of a listing whose items are in no excluded namespace
KeptPositions(listing) ==
  {i \in 1..Len(listing) : NamespaceOf(listing[i]) # "kube-system"}

\* C21: in cluster-wide mode, of the items listed for a namespaced kind the
\* task hands to sync_kind exactly those of non-excluded namespaces, in
\* listing order; no key of an excluded namespace is in the alive keys and
\* no row of an excluded namespace is in the store.
C21_ExcludedNamespacesDropped ==
  /\ [](\A k \in Kinds :
          (STATIC_KIND_MAP(k).namespaced /\ task[k].pc \in {"sync", "returned", "collected"}) =>
            LET listed == task[k].listed
                kept == KeptPositions(listed)
                nth(n) == CHOOSE i \in kept : Cardinality({j \in kept : j <= i}) = n
            IN /\ Len(task[k].items) = Cardinality(kept)
               /\ \A n \in 1..Len(task[k].items) : task[k].items[n] = listed[nth(n)]
               /\ \A n \in 1..Len(task[k].alive) : task[k].alive[n][2] # "kube-system")
  /\ [](\A n \in 1..Len(all_alive) : all_alive[n][2] # "kube-system")
  /\ [](\A r \in workload : r.namespace # "kube-system")

\* a listing with an item of kube-system before one of ns1 was synced: the
\* ns1 item alone is alive
C21_Witness ==
  /\ task["Deployment"].pc = "collected"
  /\ Len(task["Deployment"].listed) = 2
  /\ task["Deployment"].listed[1].metadata.namespace = "kube-system"
  /\ all_alive = <<(<<"Deployment", "ns1", "app">>)>>

\* C22: when the listing of kind K was cut short by a failure after it had
\* yielded items (it ended neither on a page without token nor on a
\* 403/404), finalize removes no stored row of kind K, so the rows the
\* unfetched pages would have held stay.
C22_PartialListingProtected ==
  [][(phase = "tasks" /\ phase' = "finalized") =>
       \A k \in Kinds :
         (task[k].end = "failed" /\ task[k].listed # <<>>) =>
           \A r \in workload : r.kind = k => r \in workload']_vars

\* the node names of the node_capacity rows of the cluster
NodeCapacityNames(tbl) == {r.node_name : r \in {x \in tbl : x.cluster = RunCluster}}

\* C23: when a sync_kind call for kind Node returns, the node_capacity rows
\* of the cluster are those of the node names in its items, also when it
\* had no item; a step of a sync_kind call for another kind leaves
\* node_capacity as it is.
C23_NodeRowsFollowStream ==
  [][\A k \in Kinds :
       /\ (k = "Node" /\ task[k].pc = "sync" /\ task'[k].pc = "returned") =>
            NodeCapacityNames(node_capacity') =
              {task[k].items[i].metadata.name : i \in 1..Len(task[k].items)}
       /\ (k # "Node" /\ task[k].pc = "sync" /\ task'[k] # task[k]) =>
            node_capacity' = node_capacity]_vars

\* C24: the keys of a sync_kind call are one (kind, namespace, name) per
\* item passed so far, in item order, with namespace '' for an item without
\* one; when the call has returned there is one per input item; each key
\* has a row in the store.
C24_AliveKeysPerItem ==
  \A k \in Kinds :
    task[k].pc \in {"sync", "returned"} =>
      /\ Len(task[k].alive) = task[k].idx - 1
      /\ task[k].pc = "returned" => Len(task[k].alive) = Len(task[k].items)
      /\ \A i \in 1..Len(task[k].alive) :
           LET item == task[k].items[i]
               key == task[k].alive[i]
           IN /\ key[1] = k
              /\ key[2] = IF "namespace" \in DOMAIN item.metadata
                            THEN item.metadata.namespace ELSE ""
              /\ key[3] = item.metadata.name
              /\ \E r \in workload :
                    /\ r.cluster = RunCluster
                    /\ r.kind = key[1] /\ r.namespace = key[2] /\ r.name = key[3]

\* a Node sync_kind call of the second run has returned the key of an item
\* without namespace whose row it left unchanged
C24_Witness ==
  /\ clock = 2
  /\ task["Node"].pc = "returned"
  /\ task["Node"].alive = <<(<<"Node", "", "n1">>)>>
  /\ \E r \in workload : r.kind = "Node" /\ r.first_seen = 1 /\ r.last_seen = 2

\* a Deployment sync_kind call has returned two keys in item order
C24_WitnessTwoItems ==
  /\ task["Deployment"].pc = "returned"
  /\ task["Deployment"].alive =
       <<(<<"Deployment", "ns1", "app">>), (<<"Deployment", "ns1", "web">>)>>

\* C26: when a run is done the store holds no workload row of the cluster
\* whose kind is outside the configured include_kinds; the cleanup step
\* purges every row of the kinds in the store that are not configured and
\* no other row, and the summary's removed is the number of rows finalize
\* removed plus the number of rows purged.
C26_CleanupLeavesConfiguredKinds ==
  /\ [](phase = "done" =>
          \A r \in workload : r.cluster = RunCluster => r.kind \in configured)
  /\ [][/\ (phase = "tasks" /\ phase' = "finalized") =>
             removed' = Cardinality(workload \ workload')
        /\ (phase = "finalized" /\ phase' = "done") =>
             LET obsolete_kinds ==
                   {r.kind : r \in {x \in workload : x.cluster = RunCluster}} \ configured
             IN /\ workload' =
                     {r \in workload : ~(r.cluster = RunCluster /\ r.kind \in obsolete_kinds)}
                /\ removed' = removed + Cardinality(workload \ workload')]_vars

\* a run is done whose finalize removed a row and whose cleanup purged the
\* Node rows, Node being no longer configured
C26_Witness ==
  /\ phase = "done"
  /\ configured = {"Deployment"}
  /\ calls.cleanup_kinds = 1
  /\ removed = 2
  /\ \E r \in workload : r.kind = "Deployment"

\* C29: when a run is done, every identity of its alive keys has its row:
\* the cleanup step has removed no row of a kind the run synced, also when
\* the kinds of the run came from --kind and are not the configured ones.
C29_CleanupKeepsSyncedKinds ==
  phase = "done" =>
    \A i \in 1..Len(all_alive) :
      \E r \in workload : r.cluster = RunCluster /\ KeyOf(r) = all_alive[i]

\* C30: when a run is done, the node names of the node_capacity rows of the
\* cluster are the names of its workload rows of kind Node.
C30_NodeTablesAgree ==
  phase = "done" =>
    NodeCapacityNames(node_capacity) =
      {r.name : r \in {x \in workload : x.cluster = RunCluster /\ x.kind = "Node"}}

(***************************************************************************)
(* Claims about a run whose task fails, checked under SpecRunCrash.        *)
(***************************************************************************)
\* C27: once a task of the run has raised in sync_kind, the run calls
\* neither finalize nor cleanup, and no step removes a workload row: the
\* rows stored before and the upserts committed by any task stay.
C27_TaskExceptionAbortsRun ==
  /\ []((\E k \in Kinds : task[k].end = "crashed") =>
          (phase \in {"tasks", "aborted"} /\ calls = NoCalls))
  /\ [][(\E k \in Kinds : task[k].end = "crashed") =>
          /\ \A r \in workload : \E q \in workload' : KeyOf(q) = KeyOf(r)
          /\ calls' = calls /\ removed' = removed]_vars

\* the second run was aborted by the exception of a task and every worker
\* has finished: a row not seen in this run is still stored, next to a row
\* a task upserted in this run
C27_Witness ==
  /\ phase = "aborted"
  /\ clock = 2
  /\ \E k \in Kinds : task[k].pc = "propagated"
  /\ \A k \in Kinds : task[k].pc \in {"none", "propagated", "returned", "error", "collected", "failed"}
  /\ \E r \in workload : r.last_seen = 1
  /\ \E r \in workload : r.last_seen = 2

(***************************************************************************)
(* Claims about repeated runs, checked under SpecRunTwice.                 *)
(***************************************************************************)
\* the rows of a table without their last_seen
WithoutLastSeen(tbl) == {[r EXCEPT !.last_seen = 0] : r \in tbl}

\* C28: in a run that repeats the run before it on unchanged listings,
\* every upsert of sync_kind returns 'unchanged', finalize and cleanup
\* remove nothing, and every step leaves the workload rows as they were up
\* to last_seen, and the node names of node_capacity as they were.
C28_SecondRunIdempotent ==
  [][(clock >= 2 /\ clock' = clock) =>
       /\ WithoutLastSeen(workload') = WithoutLastSeen(workload)
       /\ NodeCapacityNames(node_capacity') = NodeCapacityNames(node_capacity)
       /\ removed' = 0
       /\ \A k \in Kinds :
            (task[k].pc = "sync" /\ task'[k].idx = task[k].idx + 1) =>
              LET item == task[k].items[task[k].idx]
              IN upsert_workload(workload, RunCluster, task'[k].alive[task[k].idx],
                                 ItemPayload(STATIC_KIND_MAP(k).api_version, item),
                                 clock).status = "unchanged"]_vars

(***************************************************************************)
(* Claims about the run in namespace-scoped mode, checked under SpecRunNs. *)
(***************************************************************************)
\* C25: in namespace mode, when finalize is called after the task of
\* (K, ns) reported a fetch error, the errors hold the key 'K/ns', K is not
\* in the kinds_scope given to finalize, and finalize removes no row of
\* kind K.
C25_NamespaceErrorProtectsKind ==
  [][(phase = "tasks" /\ phase' = "finalized") =>
       \A t \in DOMAIN task :
         task[t].pc = "failed" =>
           /\ (t[1] \o "/" \o t[2]) \in errors
           /\ t[1] \notin Range(successful_kinds)
           /\ \A r \in workload : r.kind = t[1] => r \in workload']_vars

====
